---------------------------- MODULE Spec2Model ----------------------------
(***************************************************************************)
(* Model of the assistant bot: the command suggester                       *)
(* (src/src/intelligent_command.py) and the birthday recurrence            *)
(* (src/src/address_book.py).                                              *)
(*                                                                         *)
(* A Python str is a sequence of one-character strings, so that slicing,   *)
(* concatenation, len() and lower() are computed and not assumed.          *)
(***************************************************************************)
EXTENDS Integers, Sequences, FiniteSets, TLC

VARIABLES
    word,          \* variants(): the argument of the call
    variant_set,   \* variants(): the set returned
    vpc,           \* variants(): "call" before the call, "done" after it
    registry,      \* the command names in the order the registries list them
    order,         \* the iteration order of the set COMMANDS in this process
    cache,         \* COMMAND_VARIANTS_CACHE
    builds,        \* how often command_variants() ran its build branch
    misspelled,    \* the argument of the running / last suggest_command call
    result,        \* what the last suggest_command call returned
    pc,            \* "prompt": a token was read, "shown": the call returned
    birthday,      \* Birthday.value, the stored date of birth
    today,         \* the system clock's date, read by datetime.now().date()
    next_birthday, \* what the last next_congratulation_date call returned
    pre_shift,     \* the local next_birthday of that call before the weekend shift
    bpc,           \* "idle" before the call, "returned" after it, "again"
                   \* after a repeated call on the same day
    book,          \* AddressBook.data: the records in the order the dict holds them
    created,       \* for each name, the number of the operation that created its key
    ops,           \* operations done on the book
    clock,         \* the system clock's date while the address book is used
    ticks,         \* midnights passed
    days_ahead,    \* get_upcoming_birthdays: the argument
    up_today,      \* get_upcoming_birthdays: the local today
    inner_today,   \* the today read by the last next_congratulation_date call in it
    up_idx,        \* get_upcoming_birthdays: position of the loop in the records
    upcoming,      \* get_upcoming_birthdays: upcoming_birthdays
    upc,           \* "idle", "loop" inside the call, "returned" after it
    notes,         \* the note store: NoteBook.data and Note.last_id
    command,       \* the command dispatched last: its name and arguments
    reply,         \* what the handler dispatched last returned or raised
    cmds,          \* commands dispatched
    line,          \* main: the line read last at the prompt
    lpc,           \* main: "prompt" in the loop, "terminated" after the process
    ended_by,      \* how the process ended: "exit", "interrupt" or "exception"
    saved,         \* which stores were written to storage by handle_exit
    notebook_pkl,  \* the file NoteBook.FILENAME: absent, or the pickled tuple
    process        \* the process running: its number, and whether it loaded

vars == <<word, variant_set, vpc, registry, order, cache, builds,
          misspelled, result, pc, birthday, today, next_birthday, pre_shift, bpc,
          book, created, ops, clock, ticks, days_ahead, up_today, inner_today,
          up_idx, upcoming, upc, notes, command, reply, cmds,
          line, lpc, ended_by, saved, notebook_pkl, process>>

varsVariants == <<word, variant_set, vpc>>
varsSuggest  == <<registry, order, cache, builds, misspelled, result, pc>>
varsBirthday == <<birthday, today, next_birthday, pre_shift, bpc>>
varsBook     == <<book, created, ops, clock, ticks, days_ahead, up_today,
                  inner_today, up_idx, upcoming, upc>>
varsHandlers == <<notes, command, reply, cmds>>
varsStore    == <<notebook_pkl, process>>
varsMain     == <<line, lpc, ended_by, saved>>

---------------------------------------------------------------------------
(* Bounds of the model *)

\* longest word handed to variants() in SpecVariants
MaxWordLen == 3

\* longest free-typed token in SpecSuggest
MaxTokenLen == 3

\* number of consecutive years, from 2023 on, the clock runs through in
\* SpecBirthday (2024 is a leap year)
YearSpan == 3

\* number of add_record / delete operations on the address book in SpecBook
MaxOps == 4

\* number of midnights that pass in SpecBook
MaxTicks == 1

\* number of commands dispatched in SpecHandlers
MaxCmds == 2

\* number of lines read at the prompt in SpecMain
MaxLines == 3

\* SpecStore: notes are created while Note.last_id is at most this
MaxNoteId == 3

\* SpecStore: processes started one after the other
MaxProcesses == 2

---------------------------------------------------------------------------
(* Python str helpers *)

\* letters = 'abcdefghijklmnopqrstuvwxyz-'
letters ==
    <<"a","b","c","d","e","f","g","h","i","j","k","l","m",
      "n","o","p","q","r","s","t","u","v","w","x","y","z","-">>

LetterSet == {letters[i] : i \in 1..Len(letters)}

UpperCase ==
    <<"A","B","C","D","E","F","G","H","I","J","K","L","M",
      "N","O","P","Q","R","S","T","U","V","W","X","Y","Z">>

\* str.lower() on one character: A-Z map to a-z, everything else is kept
LowerChar(ch) ==
    IF \E i \in 1..Len(UpperCase) : UpperCase[i] = ch
    THEN letters[CHOOSE i \in 1..Len(UpperCase) : UpperCase[i] = ch]
    ELSE ch

\* misspelled.lower()
lower(s) == [i \in 1..Len(s) |-> LowerChar(s[i])]

\* all words of length at most n over the characters cs
WordsUpTo(cs, n) == UNION {[1..k -> cs] : k \in 0..n}

---------------------------------------------------------------------------
(* variants(word): intelligent_command.py lines 10-27 *)

\* splits = [(word[:i], word[i:]) for i in range(len(word) + 1)]
splits(w) == {<<SubSeq(w, 1, i), SubSeq(w, i + 1, Len(w))>> : i \in 0..Len(w)}

\* deletes = [L + R[1:] for L, R in splits if R]
deletes(w) == {s[1] \o Tail(s[2]) : s \in {t \in splits(w) : t[2] # <<>>}}

\* transposes = [L + R[1] + R[0] + R[2:] for L, R in splits if len(R) > 1]
transposes(w) ==
    {s[1] \o <<s[2][2], s[2][1]>> \o SubSeq(s[2], 3, Len(s[2])) :
        s \in {t \in splits(w) : Len(t[2]) > 1}}

\* the replacement loop with the character of the word left out
replaces_other_only(w) ==
    UNION {{s[1] \o <<c>> \o Tail(s[2]) : c \in LetterSet \ {s[2][1]}} :
        s \in {t \in splits(w) : t[2] # <<>>}}

\* replaces = [L + c + R[1:] for L, R in splits if R for c in letters]
replaces(w) ==
    UNION {{s[1] \o <<c>> \o Tail(s[2]) : c \in LetterSet} :
        s \in {t \in splits(w) : t[2] # <<>>}}

\* the insertion loop stopping one gap early (no insertion at the end)
inserts_no_end(w) ==
    UNION {{s[1] \o <<c>> \o s[2] : c \in LetterSet} :
        s \in {t \in splits(w) : t[2] # <<>>}}

\* inserts = [L + c + R for L, R in splits for c in letters]
inserts(w) ==
    UNION {{s[1] \o <<c>> \o s[2] : c \in LetterSet} : s \in splits(w)}

\* return set(deletes + transposes + replaces + inserts)
variants(w) == deletes(w) \cup transposes(w) \cup replaces(w) \cup inserts(w)

---------------------------------------------------------------------------
(* The command registries *)

None == [kind |-> "None", value |-> <<>>]
Str(s) == [kind |-> "str", value |-> s]

cmd_hello == <<"h", "e", "l", "l", "o">>
cmd_help == <<"h", "e", "l", "p">>
cmd_add_birthday == <<"a", "d", "d", "-", "b", "i", "r", "t", "h", "d", "a", "y">>
cmd_abc == <<"a", "b", "c">>
cmd_abd == <<"a", "b", "d">>

\* The registries the suggester is run on, each in the order its dict literal
\* lists the names: names of the shipped registry (hello, help and
\* add-birthday; hello and help are the only shipped names within two edits
\* of each other) and the registries the unit tests install.
Registries ==
    { <<cmd_hello, cmd_help>>,
      <<cmd_add_birthday>>,
      <<cmd_help>>,
      <<cmd_abc, cmd_abd>> }

Range(f) == {f[i] : i \in DOMAIN f}

\* COMMANDS = address_book_commands.keys() | note_book_commands.keys() | ...
\* is a set: it holds the registered names, and iterates in an order of its own
COMMANDS == Range(order)

\* the orders a set of these names can iterate in
IterationOrders(reg) ==
    {o \in [1..Len(reg) -> Range(reg)] : Range(o) = Range(reg)}

---------------------------------------------------------------------------
(* distance, command_variants, suggest_command:                            *)
(* intelligent_command.py lines 30-85                                      *)

\* return abs(len(s1) - len(s2))
distance(s1, s2) ==
    IF Len(s1) >= Len(s2) THEN Len(s1) - Len(s2) ELSE Len(s2) - Len(s1)

\* the build branch taken on every call
needs_build_always == TRUE

\* if COMMAND_VARIANTS_CACHE is None:
needs_build == cache.is_none

\* for command in COMMANDS: variant_map[command] = variants(command)
\* variant_map.items() iterates in insertion order, the order of COMMANDS
build_items ==
    [i \in 1..Len(order) |-> [command |-> order[i], variants |-> variants(order[i])]]

\* command_variants(): the value of COMMAND_VARIANTS_CACHE after the call,
\* which is also what the call returns
command_variants ==
    IF needs_build THEN [is_none |-> FALSE, items |-> build_items] ELSE cache

\* list.sort(key=...) is stable: x goes behind every element whose key is
\* not larger than its own
RECURSIVE insert_sorted(_, _, _)
insert_sorted(sorted, x, lm) ==
    IF sorted = <<>> THEN <<x>>
    ELSE IF distance(lm, Head(sorted)) <= distance(lm, x)
         THEN <<Head(sorted)>> \o insert_sorted(Tail(sorted), x, lm)
         ELSE <<x>> \o sorted

RECURSIVE sort_by_distance(_, _)
sort_by_distance(seq, lm) ==
    IF seq = <<>> THEN <<>>
    ELSE insert_sorted(sort_by_distance(SubSeq(seq, 1, Len(seq) - 1), lm),
                       seq[Len(seq)], lm)

\* for command, variants_set in command_variants():
\*     if any(lower_misspelled == variant for variant in variants_set):
\*         possible_matches.append(command)
possible_matches(items, lm) ==
    LET Hit(it) == lm \in it.variants
        hits == SelectSeq(items, Hit)
    IN  [i \in 1..Len(hits) |-> hits[i].command]

\* lower_misspelled taken to be the argument as typed
lower_misspelled_as_typed(m) == m

\* lower_misspelled = misspelled.lower()
lower_misspelled(m) == lower(m)

\* if lower_misspelled in COMMANDS:
exact_match(lm) == lm \in COMMANDS

\* possible_matches.sort(key=lambda cmd: distance(lower_misspelled, cmd))
\* return possible_matches[0] if possible_matches else None
first_match(items, lm) ==
    LET ranked == sort_by_distance(possible_matches(items, lm), lm)
    IN  IF ranked # <<>> THEN Str(ranked[1]) ELSE None

\* what suggest_command(m) returns when command_variants() yields items
suggest_command(m, items) ==
    LET lm == lower_misspelled(m)
    IN  IF exact_match(lm) THEN Str(lm) ELSE first_match(items, lm)

---------------------------------------------------------------------------
(* SpecVariants: variants() called on every word of a bounded set *)

\* characters of the words tried: letters, the hyphen, and two characters
\* outside the alphabet
WordChars == {"a", "b", "-", "A", "1"}

InitVariantsIdle ==
    /\ word = <<>>
    /\ variant_set = {}
    /\ vpc = "idle"

NoDate == [year |-> 0, month |-> 0, day |-> 0]

InitBirthdayIdle ==
    /\ birthday = NoDate
    /\ today = NoDate
    /\ next_birthday = NoDate
    /\ pre_shift = NoDate
    /\ bpc = "off"

Names == {"John", "Jane"}

InitBookIdle ==
    /\ book = <<>>
    /\ created = [n \in Names |-> 0]
    /\ ops = 0
    /\ clock = NoDate
    /\ ticks = 0
    /\ days_ahead = 0
    /\ up_today = NoDate
    /\ inner_today = NoDate
    /\ up_idx = 0
    /\ upcoming = <<>>
    /\ upc = "off"

NoCommand == [name |-> "", args |-> <<>>]

NoReply == [kind |-> "", exc |-> "", data |-> ""]

InitHandlersIdle ==
    /\ notes = [data |-> <<>>, last_id |-> 1]
    /\ command = NoCommand
    /\ reply = NoReply
    /\ cmds = 0

NothingSaved == [address_book |-> FALSE, notes_book |-> FALSE]

NoFile == [exists |-> FALSE, data |-> <<>>, last_id |-> 0]

InitStoreIdle ==
    /\ notebook_pkl = NoFile
    /\ process = [number |-> 0, loaded |-> FALSE]

InitMainIdle ==
    /\ line = <<>>
    /\ lpc = "off"
    /\ ended_by = ""
    /\ saved = NothingSaved

InitSuggestIdle ==
    /\ registry = <<>>
    /\ order = <<>>
    /\ cache = [is_none |-> TRUE, items |-> <<>>]
    /\ builds = 0
    /\ misspelled = <<>>
    /\ result = [kind |-> "pending", value |-> <<>>]
    /\ pc = "idle"

InitVariants ==
    /\ word \in WordsUpTo(WordChars, MaxWordLen)
    /\ variant_set = {}
    /\ vpc = "call"
    /\ InitSuggestIdle
    /\ InitBirthdayIdle
    /\ InitBookIdle
    /\ InitHandlersIdle
    /\ InitMainIdle
    /\ InitStoreIdle

\* the call variants(word)
CallVariants ==
    /\ vpc = "call"
    /\ variant_set' = variants(word)
    /\ vpc' = "done"
    /\ UNCHANGED <<word>>
    /\ UNCHANGED varsSuggest
    /\ UNCHANGED varsBirthday
    /\ UNCHANGED varsBook
    /\ UNCHANGED varsHandlers
    /\ UNCHANGED varsMain
    /\ UNCHANGED varsStore

\* the caller moves on to another word: one character shorter or longer
NextWord ==
    /\ vpc = "done"
    /\ word' \in (IF word # <<>> THEN {SubSeq(word, 1, Len(word) - 1)} ELSE {})
                 \cup (IF Len(word) < MaxWordLen
                       THEN {word \o <<c>> : c \in WordChars} ELSE {})
    /\ variant_set' = {}
    /\ vpc' = "call"
    /\ UNCHANGED varsSuggest
    /\ UNCHANGED varsBirthday
    /\ UNCHANGED varsBook
    /\ UNCHANGED varsHandlers
    /\ UNCHANGED varsMain
    /\ UNCHANGED varsStore

NextVariants == CallVariants \/ NextWord

SpecVariants == InitVariants /\ [][NextVariants]_vars

---------------------------------------------------------------------------
(* One primitive edit, written by position and not by split *)

DeleteAt(w, i) == [j \in 1..(Len(w) - 1) |-> IF j < i THEN w[j] ELSE w[j + 1]]

SwapAt(w, i) ==
    [j \in 1..Len(w) |-> IF j = i THEN w[i + 1] ELSE IF j = i + 1 THEN w[i] ELSE w[j]]

ReplaceAt(w, i, c) == [j \in 1..Len(w) |-> IF j = i THEN c ELSE w[j]]

\* c is put into gap g, 0 being the gap before the first character
InsertAt(w, g, c) ==
    [j \in 1..(Len(w) + 1) |-> IF j <= g THEN w[j] ELSE IF j = g + 1 THEN c ELSE w[j - 1]]

Deletions(w)      == {DeleteAt(w, i) : i \in 1..Len(w)}
Transpositions(w) == {SwapAt(w, i) : i \in 1..(Len(w) - 1)}
Replacements(w)   == {ReplaceAt(w, i, c) : i \in 1..Len(w), c \in LetterSet}
Insertions(w)     == {InsertAt(w, g, c) : g \in 0..Len(w), c \in LetterSet}

OneEdit(w) == Deletions(w) \cup Transpositions(w) \cup Replacements(w) \cup Insertions(w)

OverLetters(w) == \A i \in 1..Len(w) : w[i] \in LetterSet

---------------------------------------------------------------------------
(* SpecSuggest: the prompt loop handing tokens to suggest_command *)

\* the characters of free-typed tokens: letters of the test registries, an
\* upper-case letter, the hyphen and a character outside the alphabet
TokenChars == {"a", "b", "A", "-", "1"}

UpperChar(ch) ==
    IF \E i \in 1..Len(UpperCase) : letters[i] = ch
    THEN UpperCase[CHOOSE i \in 1..Len(UpperCase) : letters[i] = ch]
    ELSE ch

upper(s) == [i \in 1..Len(s) |-> UpperChar(s[i])]

\* what a user may type: a registered name, a name with one typing slip, a
\* name or a name with two characters swapped in capitals, or any short token
Tokens(reg) ==
    LET names == Range(reg)
        slips == UNION {OneEdit(c) : c \in names}
        swaps == UNION {Transpositions(c) : c \in names}
    IN  names \cup slips \cup {upper(t) : t \in names \cup swaps}
              \cup WordsUpTo(TokenChars, MaxTokenLen)

InitSuggest ==
    /\ registry \in Registries
    /\ order \in IterationOrders(registry)
    /\ cache = [is_none |-> TRUE, items |-> <<>>]
    /\ builds = 0
    /\ misspelled \in Tokens(registry)
    /\ result = [kind |-> "pending", value |-> <<>>]
    /\ pc = "prompt"
    /\ InitVariantsIdle
    /\ InitBirthdayIdle
    /\ InitBookIdle
    /\ InitHandlersIdle
    /\ InitMainIdle
    /\ InitStoreIdle

\* main(): suggestion = suggest_command(command). The index is asked for
\* only behind the exact-match return.
SuggestCommand ==
    /\ pc = "prompt"
    /\ IF exact_match(lower_misspelled(misspelled))
       THEN UNCHANGED <<cache, builds>>
       ELSE /\ cache' = command_variants
            /\ builds' = IF needs_build THEN builds + 1 ELSE builds
    /\ result' = suggest_command(misspelled, cache'.items)
    /\ pc' = "shown"
    /\ UNCHANGED <<registry, order, misspelled>>
    /\ UNCHANGED varsVariants
    /\ UNCHANGED varsBirthday
    /\ UNCHANGED varsBook
    /\ UNCHANGED varsHandlers
    /\ UNCHANGED varsMain
    /\ UNCHANGED varsStore

\* the tokens typed after a suggestion was shown: the same token in lower
\* case, the token without its last character, or a registered name
Retyped(m) ==
    {lower(m)} \cup Range(registry)
        \cup (IF m # <<>> THEN {SubSeq(m, 1, Len(m) - 1)} ELSE {})

\* main(): the next Prompt.ask
ReadToken ==
    /\ pc = "shown"
    /\ misspelled' \in Retyped(misspelled)
    /\ pc' = "prompt"
    /\ UNCHANGED <<registry, order, cache, builds, result>>
    /\ UNCHANGED varsVariants
    /\ UNCHANGED varsBirthday
    /\ UNCHANGED varsBook
    /\ UNCHANGED varsHandlers
    /\ UNCHANGED varsMain
    /\ UNCHANGED varsStore

NextSuggest == SuggestCommand \/ ReadToken

SpecSuggest == InitSuggest /\ [][NextSuggest]_vars

---------------------------------------------------------------------------
(* Claims about variants() *)

\* C7: for every word w of length n, variants(w) is exactly the union of the
\* n deletions, the n-1 adjacent transpositions, the 27*n replacements and the
\* 27*(n+1) insertions over a-z plus '-', and nothing else; for the empty word
\* it is exactly the 27 one-character strings.
C7_VariantsAreExactlyOneEdit ==
    vpc = "done" =>
        /\ variant_set = OneEdit(word)
        /\ Len(letters) = 27
        /\ word = <<>> =>
              /\ variant_set = {<<c>> : c \in LetterSet}
              /\ Cardinality(variant_set) = 27

\* C7 witness: variants() has returned for a word of full length whose set
\* holds a deletion, a transposition and an insertion at the end.
C7_Witness ==
    /\ vpc = "done"
    /\ word = <<"a", "b", "-">>
    /\ <<"a", "b">> \in variant_set
    /\ <<"b", "a", "-">> \in variant_set
    /\ <<"a", "b", "-", "z">> \in variant_set

\* C8: every non-empty word w of lowercase letters and hyphens is an element
\* of variants(w).
C8_WordInOwnVariants ==
    (vpc = "done" /\ word # <<>> /\ OverLetters(word)) => word \in variant_set

\* C8 witness: a non-empty word over the alphabet with no repeated character
\* (so only a same-character replacement yields it) is in its own set.
C8_Witness ==
    /\ vpc = "done"
    /\ word = <<"a", "-", "b">>
    /\ word \in variant_set

---------------------------------------------------------------------------
(* Claims about suggest_command *)

\* the index the last call searched, or would have searched
IndexItems == IF cache.is_none THEN build_items ELSE cache.items

\* the registered commands whose variant set holds the lowered input
MatchingCommands ==
    {it.command : it \in {x \in Range(IndexItems) : lower(misspelled) \in x.variants}}

\* the last call took the fuzzy path
Searched == pc = "shown" /\ lower(misspelled) \notin COMMANDS

\* the command names a returned value holds: the elements of a list, the one
\* name of a str, nothing for None
Returned(r) ==
    IF r.kind = "list" THEN Range(r.value)
    ELSE IF r.kind = "str" THEN {r.value} ELSE {}

List(seq) == [kind |-> "list", value |-> seq]

RegIndex(c) == CHOOSE i \in 1..Len(registry) : registry[i] = c

\* c is ranked before d: smaller length difference, or the same and
\* registered no later
RankedBefore(c, d, lm) ==
    \/ distance(lm, c) < distance(lm, d)
    \/ distance(lm, c) = distance(lm, d) /\ RegIndex(c) <= RegIndex(d)

\* C1: for a lowered input that is not a registered command, suggest returns
\* exactly the registered commands whose one-edit variant set contains the
\* lowered input: every such command is returned, and no other.
C1_ReturnsExactlyTheMatches ==
    Searched => Returned(result) = MatchingCommands

\* C2: for every registered command c and every string s over a-z plus '-'
\* one deletion, adjacent transposition, replacement or insertion away from c
\* and not itself registered, suggest(s) contains c.
C2_OneEditAwaySuggestsCommand ==
    (pc = "shown" /\ OverLetters(misspelled) /\ misspelled \notin COMMANDS) =>
        \A c \in COMMANDS : misspelled \in OneEdit(c) => c \in Returned(result)

\* C3: the candidates are ranked by ascending length difference to the lowered
\* input, and candidates of equal length difference in the order they were
\* registered; so the first candidate returned is ranked before every other
\* match (registry abc, abd and input 'ab' give 'abc' first on every run).
C3_RankedByDistanceThenRegistration ==
    (Searched /\ MatchingCommands # {}) =>
        /\ result.kind \in {"str", "list"}
        /\ LET first == IF result.kind = "str" THEN result.value ELSE result.value[1]
           IN  \A d \in MatchingCommands : RankedBefore(first, d, lower(misspelled))

\* C4: when the lower-cased input equals a registered command name, suggest
\* returns a single-element list holding that command and nothing else, also
\* when the input is in the variant set of other registered commands.
C4_ExactMatchSingleElementList ==
    (pc = "shown" /\ lower(misspelled) \in COMMANDS) =>
        result = List(<<lower(misspelled)>>)

\* C5: suggest never raises, and when no registered command matches it
\* returns an empty list, not an error and not a missing value.
C5_NoMatchEmptyList ==
    (Searched /\ MatchingCommands = {}) => result = List(<<>>)

\* C6: suggest is case-insensitive: suggest(x) equals suggest(lower(x)) for
\* every input x.
C6_CaseInsensitive ==
    pc = "shown" => result = suggest_command(lower(misspelled), IndexItems)

\* C6 witness: 'HLEP' was typed in capitals (it differs from its lower-case
\* form, which is no registered name) and 'help' came back.
C6_Witness ==
    /\ pc = "shown"
    /\ misspelled = <<"H", "L", "E", "P">>
    /\ lower(misspelled) # misspelled
    /\ result = Str(cmd_help)

\* C9: the command-to-variants index is unset until the first lookup that
\* needs it, is built exactly once, on that lookup, and is never rebuilt or
\* changed afterwards; its keys are exactly the registered command names.
C9_IndexBuiltOnceAndKept ==
    [][ /\ ~cache.is_none => cache' = cache
        /\ cache.is_none =>
              (~cache'.is_none <=>
                  (pc = "prompt" /\ pc' = "shown" /\ lower(misspelled) \notin COMMANDS))
        /\ builds' = (IF cache'.is_none THEN 0 ELSE 1)
        /\ ~cache'.is_none =>
              /\ {it.command : it \in Range(cache'.items)} = Range(registry)
              /\ Len(cache'.items) = Len(registry)
      ]_vars

\* C9 witness: the index was built by an earlier lookup (one build), and a
\* later call, an exact match that needs no index, has returned with the
\* index still set.
C9_Witness ==
    /\ pc = "shown"
    /\ misspelled = cmd_help
    /\ result = Str(cmd_help)
    /\ ~cache.is_none
    /\ builds = 1

---------------------------------------------------------------------------
(* datetime.date, as far as Birthday uses it *)

Date(y, m, d) == [year |-> y, month |-> m, day |-> d]

\* return year % 4 == 0 and (year % 100 != 0 or year % 400 == 0)
is_leap_year(y) == y % 4 = 0 /\ (y % 100 # 0 \/ y % 400 = 0)

DaysInMonth(y, m) ==
    IF m = 2 THEN (IF is_leap_year(y) THEN 29 ELSE 28)
    ELSE IF m \in {4, 6, 9, 11} THEN 30 ELSE 31

\* the dates datetime.date can hold; replace() raises ValueError on any other
ValidDate(d) ==
    /\ d.year >= 1
    /\ d.month \in 1..12
    /\ d.day \in 1..DaysInMonth(d.year, d.month)

\* date.__lt__
DateLess(a, b) ==
    \/ a.year < b.year
    \/ a.year = b.year /\ a.month < b.month
    \/ a.year = b.year /\ a.month = b.month /\ a.day < b.day

RECURSIVE DaysBeforeMonth(_, _)
DaysBeforeMonth(y, m) ==
    IF m = 1 THEN 0 ELSE DaysBeforeMonth(y, m - 1) + DaysInMonth(y, m - 1)

\* date.toordinal(): 1 for 01.01.0001
toordinal(d) ==
    LET p == d.year - 1
    IN  p * 365 + (p \div 4) - (p \div 100) + (p \div 400)
          + DaysBeforeMonth(d.year, d.month) + d.day

\* date.weekday(): Monday is 0, Sunday is 6
weekday(d) == (toordinal(d) + 6) % 7

NextDay(d) ==
    IF d.day < DaysInMonth(d.year, d.month) THEN Date(d.year, d.month, d.day + 1)
    ELSE IF d.month < 12 THEN Date(d.year, d.month + 1, 1)
    ELSE Date(d.year + 1, 1, 1)

\* d + timedelta(days=n)
RECURSIVE AddDays(_, _)
AddDays(d, n) == IF n = 0 THEN d ELSE AddDays(NextDay(d), n - 1)

---------------------------------------------------------------------------
(* Birthday.next_congratulation_date: address_book.py lines 85-130 *)

\* return self.value.month == 2 and self.value.day == 29
is_29th_february(b) == b.month = 2 /\ b.day = 29

\* the roll to the next year never taken
is_past_never(nb, t) == FALSE

\* if next_birthday < today:
is_past(nb, t) == DateLess(nb, t)

\* lines 107-111: the birthday in today's year
this_year(b, t) ==
    IF is_29th_february(b) /\ ~is_leap_year(t.year)
    THEN Date(t.year, b.month, 28)
    ELSE Date(t.year, b.month, b.day)

\* the roll without the special case for 29th February
rolled_keep_day(b, nb, t) == Date(t.year + 1, nb.month, nb.day)

\* lines 114-122: the birthday in the year after today's
rolled(b, nb, t) ==
    IF is_29th_february(b)
    THEN (IF is_leap_year(t.year + 1)
          THEN Date(t.year + 1, nb.month, 29)
          ELSE Date(t.year + 1, nb.month, 28))
    ELSE Date(t.year + 1, nb.month, nb.day)

\* the shift with Saturday moved one day only
weekend_shift_one_day(nb) ==
    IF weekday(nb) \in {5, 6} THEN AddDays(nb, 1) ELSE nb

\* lines 124-128: a Saturday moves 2 days on, a Sunday 1 day
weekend_shift(nb) ==
    IF weekday(nb) = 5 THEN AddDays(nb, 2)
    ELSE IF weekday(nb) = 6 THEN AddDays(nb, 1)
    ELSE nb

\* the date before the weekend shift
occurrence(b, t) ==
    LET nb == this_year(b, t)
    IN  IF is_past(nb, t) THEN rolled(b, nb, t) ELSE nb

next_congratulation_date(b, t) == weekend_shift(occurrence(b, t))

---------------------------------------------------------------------------
(* SpecBirthday: a stored birthday asked for its next celebration date as   *)
(* the clock moves on                                                       *)

\* every day of the year as a date of birth, in the leap year 2000
Birthdays == {d \in {Date(2000, m, dd) : m \in 1..12, dd \in 1..31} : ValidDate(d)}

ClockYears == 2023..(2022 + YearSpan)

ClockDates ==
    {d \in {Date(y, m, dd) : y \in ClockYears, m \in 1..12, dd \in 1..31} : ValidDate(d)}

InitBirthday ==
    /\ birthday \in Birthdays
    /\ today \in ClockDates
    /\ next_birthday = NoDate
    /\ pre_shift = NoDate
    /\ bpc = "idle"
    /\ InitVariantsIdle
    /\ InitSuggestIdle
    /\ InitBookIdle
    /\ InitHandlersIdle
    /\ InitMainIdle
    /\ InitStoreIdle

\* the call assigning the date of this year to the stored value
stored_after_call_rolled(b, t) == this_year(b, t)

\* Birthday.value after a call: the method only reads self.value (replace()
\* returns a new date, += rebinds the local)
stored_after_call(b, t) == b

\* the body of birthday.next_congratulation_date(), which reads the clock
CallBody ==
    /\ pre_shift' = occurrence(birthday, today)
    /\ next_birthday' = next_congratulation_date(birthday, today)
    /\ birthday' = stored_after_call(birthday, today)
    /\ UNCHANGED <<today>>
    /\ UNCHANGED varsVariants
    /\ UNCHANGED varsSuggest
    /\ UNCHANGED varsBook
    /\ UNCHANGED varsHandlers
    /\ UNCHANGED varsMain
    /\ UNCHANGED varsStore

\* the first call of the day
NextCongratulationDate ==
    /\ bpc = "idle"
    /\ bpc' = "returned"
    /\ CallBody

\* the call repeated on the same day
CallAgain ==
    /\ bpc \in {"returned", "again"}
    /\ bpc' = "again"
    /\ CallBody

\* midnight passes
Midnight ==
    /\ bpc \in {"returned", "again"}
    /\ NextDay(today) \in ClockDates
    /\ today' = NextDay(today)
    /\ next_birthday' = NoDate
    /\ pre_shift' = NoDate
    /\ bpc' = "idle"
    /\ UNCHANGED <<birthday>>
    /\ UNCHANGED varsVariants
    /\ UNCHANGED varsSuggest
    /\ UNCHANGED varsBook
    /\ UNCHANGED varsHandlers
    /\ UNCHANGED varsMain
    /\ UNCHANGED varsStore

NextBirthday == NextCongratulationDate \/ CallAgain \/ Midnight

SpecBirthday == InitBirthday /\ [][NextBirthday]_vars

---------------------------------------------------------------------------
(* Claims about next_congratulation_date *)

\* C10: for every stored birthday and every reference date today, the date
\* returned by next_congratulation_date is on or after today.
C10_NextDateNotBeforeToday ==
    bpc = "returned" => (ValidDate(next_birthday) /\ ~DateLess(next_birthday, today))

\* C10 witness: the birthday of this year already lies behind today, so the
\* call rolled to the next year and came back with a date after today.
C10_Witness ==
    /\ bpc = "returned"
    /\ DateLess(this_year(birthday, today), today)
    /\ next_birthday.year = today.year + 1
    /\ DateLess(today, next_birthday)

\* the Feb-29 celebration day of year y: the 29th in a leap year, else the 28th
LeapDayIn(y) == Date(y, 2, IF is_leap_year(y) THEN 29 ELSE 28)

\* today's year if the celebration day of that year is not before t, else the
\* year after
ResolvedYear(t) == IF DateLess(LeapDayIn(t.year), t) THEN t.year + 1 ELSE t.year

HasReturned == bpc \in {"returned", "again"}

\* C11: for a February-29 birthday the occurrence before the weekend shift is
\* February 29 when the resolved year is a leap year and February 28 when it
\* is not, the resolved year being today's year if that candidate is not
\* before today and the next year otherwise (today 01.04.2024 gives
\* 28.02.2025, today 01.01.2024 gives 29.02.2024); no invalid date is produced.
C11_LeapDayOccurrence ==
    (HasReturned /\ is_29th_february(birthday)) =>
        /\ pre_shift = LeapDayIn(ResolvedYear(today))
        /\ ValidDate(pre_shift)
        /\ ValidDate(next_birthday)
        /\ today = Date(2024, 4, 1) => pre_shift = Date(2025, 2, 28)
        /\ today = Date(2024, 1, 1) => pre_shift = Date(2024, 2, 29)

\* C11 witness: a Feb-29 birthday asked on 01.03.2023, after the Feb 28 of a
\* non-leap year: the call rolled into the leap year 2024 and took the 29th.
C11_Witness ==
    /\ bpc = "returned"
    /\ is_29th_february(birthday)
    /\ today = Date(2023, 3, 1)
    /\ pre_shift = Date(2024, 2, 29)

\* C12: the returned date never falls on a Saturday or Sunday: a Saturday
\* occurrence is moved forward 2 days and a Sunday occurrence 1 day, both to
\* Monday, and an occurrence on Monday to Friday is returned unchanged.
C12_NeverOnWeekend ==
    HasReturned =>
        /\ weekday(next_birthday) \notin {5, 6}
        /\ weekday(pre_shift) = 5 =>
              (toordinal(next_birthday) = toordinal(pre_shift) + 2 /\ weekday(next_birthday) = 0)
        /\ weekday(pre_shift) = 6 =>
              (toordinal(next_birthday) = toordinal(pre_shift) + 1 /\ weekday(next_birthday) = 0)
        /\ weekday(pre_shift) \in 0..4 => next_birthday = pre_shift

\* C12 witness: birthday 25.10, today 21.10.2025: the occurrence 25.10.2025
\* is a Saturday and Monday 27.10.2025 is returned.
C12_Witness ==
    /\ bpc = "returned"
    /\ birthday = Date(2000, 10, 25)
    /\ today = Date(2025, 10, 21)
    /\ pre_shift = Date(2025, 10, 25)
    /\ next_birthday = Date(2025, 10, 27)

AdjustedAnniversary(b, y) == weekend_shift(this_year(b, Date(y, 1, 1)))

\* the weekend-adjusted anniversaries on or after t; the one of the year
\* before t's can reach into t's year, none of a later year comes before
\* the one of the year after t's
AdjustedFrom(b, t) ==
    {d \in {AdjustedAnniversary(b, y) : y \in (t.year - 1)..(t.year + 1)} :
        ~DateLess(d, t)}

Earliest(dates) == CHOOSE d \in dates : \A e \in dates : ~DateLess(e, d)

\* C27: for every birthday and today, next_congratulation_date returns the
\* earliest date d on or after today such that d is the weekend-adjusted
\* anniversary of the birthday in some year.
C27_EarliestAdjustedAnniversary ==
    bpc = "returned" => next_birthday = Earliest(AdjustedFrom(birthday, today))

-----------------------------------------------------------------------------
\* AddressBook: the records and the upcoming birthdays (address_book.py)

\* Record.__init__: a record holds a name and, until they are set, no
\* birthday, no phones, no email and no address
NoValue == "None"

\* None in a field that holds a str otherwise: no str, which is a sequence of
\* one-character strings, equals it
NoText == <<"None">>

Record(name) ==
    [name |-> name, birthday |-> NoDate, phones |-> {}, email |-> NoText,
     address |-> NoText]

\* Record.add_birthday
add_birthday(record, b) == [record EXCEPT !.birthday = b]

\* the keys of AddressBook.data, in the order the dict holds them
Keys(bk) == {bk[i].name : i \in 1..Len(bk)}

KeyIndex(bk, name) == CHOOSE i \in 1..Len(bk) : bk[i].name = name

\* a dict that moved an assigned key to its end
add_record_move_to_end(bk, record) ==
    Append(SelectSeq(bk, LAMBDA r : r.name # record.name), record)

\* AddressBook.add_record: self.data[record.name.value] = record; an
\* existing key keeps its place in the dict, a new key goes to the end
add_record(bk, record) ==
    IF record.name \in Keys(bk)
    THEN [bk EXCEPT ![KeyIndex(bk, record.name)] = record]
    ELSE Append(bk, record)

\* AddressBook.delete
delete(bk, name) ==
    IF name \in Keys(bk) THEN SelectSeq(bk, LAMBDA r : r.name # name) ELSE bk

\* (a - b).days
days_between(a, b) == toordinal(a) - toordinal(b)

\* get_upcoming_birthdays: 0 <= (congratulation_day - today).days <= days_ahead
in_window(congratulation_day, t, d) ==
    0 <= days_between(congratulation_day, t) /\ days_between(congratulation_day, t) <= d

\* the entry appended for a record
upcoming_entry(record, congratulation_day) ==
    [name |-> record.name, congratulation_day |-> congratulation_day]

\* the day the book is first used: Thursday 30.10.2025
BookStart == Date(2025, 10, 30)

\* the birthdays given to records: on BookStart, a week after it, eight days
\* after it, on the Saturday after it, or none
BookBirthdays ==
    {Date(1990, 10, 30), Date(1990, 10, 31), Date(1990, 11, 1),
     Date(1990, 11, 6), Date(1990, 11, 7), NoDate}

\* the arguments of get_upcoming_birthdays: no day ahead, or its default
DaysAhead == {0, 7}

InitBook ==
    /\ book = <<>>
    /\ created = [n \in Names |-> 0]
    /\ ops = 0
    /\ clock = BookStart
    /\ ticks = 0
    /\ days_ahead = 0
    /\ up_today = NoDate
    /\ inner_today = NoDate
    /\ up_idx = 0
    /\ upcoming = <<>>
    /\ upc = "idle"
    /\ InitVariantsIdle
    /\ InitSuggestIdle
    /\ InitBirthdayIdle
    /\ InitHandlersIdle
    /\ InitMainIdle
    /\ InitStoreIdle

UnchangedOutsideBook ==
    /\ UNCHANGED varsVariants
    /\ UNCHANGED varsSuggest
    /\ UNCHANGED varsBirthday
    /\ UNCHANGED varsHandlers
    /\ UNCHANGED varsMain
    /\ UNCHANGED varsStore

\* the locals of a finished get_upcoming_birthdays call are gone
ForgetCall ==
    /\ days_ahead' = 0
    /\ up_today' = NoDate
    /\ inner_today' = NoDate
    /\ up_idx' = 0
    /\ upcoming' = <<>>
    /\ upc' = "idle"

\* book.add_record(record) for a record with or without a birthday
AddRecord ==
    /\ upc \in {"idle", "returned"}
    /\ ops < MaxOps
    /\ \E name \in Names, b \in BookBirthdays :
          /\ book' = add_record(book, add_birthday(Record(name), b))
          /\ created' = IF name \in Keys(book) THEN created
                        ELSE [created EXCEPT ![name] = ops + 1]
    /\ ops' = ops + 1
    /\ ForgetCall
    /\ UNCHANGED <<clock, ticks>>
    /\ UnchangedOutsideBook

\* book.delete(name)
Delete ==
    /\ upc \in {"idle", "returned"}
    /\ ops < MaxOps
    /\ \E name \in Names :
          /\ book' = delete(book, name)
          /\ created' = [created EXCEPT ![name] = 0]
    /\ ops' = ops + 1
    /\ ForgetCall
    /\ UNCHANGED <<clock, ticks>>
    /\ UnchangedOutsideBook

\* get_upcoming_birthdays up to the loop: today = datetime.now().date()
StartUpcoming ==
    /\ upc \in {"idle", "returned"}
    /\ \E d \in DaysAhead : days_ahead' = d
    /\ up_today' = clock
    /\ inner_today' = NoDate
    /\ up_idx' = 1
    /\ upcoming' = <<>>
    /\ upc' = "loop"
    /\ UNCHANGED <<book, created, ops, clock, ticks>>
    /\ UnchangedOutsideBook

\* one turn of the loop over self.data.values(): a record without a birthday
\* is skipped; next_congratulation_date() reads the clock itself
UpcomingLoop ==
    /\ upc = "loop"
    /\ up_idx <= Len(book)
    /\ LET record == book[up_idx]
           congratulation_day == next_congratulation_date(record.birthday, clock)
       IN  IF record.birthday = NoDate
           THEN UNCHANGED <<inner_today, upcoming>>
           ELSE /\ inner_today' = clock
                /\ upcoming' =
                      IF in_window(congratulation_day, up_today, days_ahead)
                      THEN Append(upcoming, upcoming_entry(record, congratulation_day))
                      ELSE upcoming
    /\ up_idx' = up_idx + 1
    /\ UNCHANGED <<book, created, ops, clock, ticks, days_ahead, up_today, upc>>
    /\ UnchangedOutsideBook

\* return upcoming_birthdays
ReturnUpcoming ==
    /\ upc = "loop"
    /\ up_idx > Len(book)
    /\ upc' = "returned"
    /\ UNCHANGED <<book, created, ops, clock, ticks, days_ahead, up_today,
                   inner_today, up_idx, upcoming>>
    /\ UnchangedOutsideBook

\* midnight passes on the system clock, at any moment
BookMidnight ==
    /\ ticks < MaxTicks
    /\ clock' = NextDay(clock)
    /\ ticks' = ticks + 1
    /\ UNCHANGED <<book, created, ops, days_ahead, up_today, inner_today,
                   up_idx, upcoming, upc>>
    /\ UnchangedOutsideBook

NextBook ==
    \/ AddRecord
    \/ Delete
    \/ StartUpcoming
    \/ UpcomingLoop
    \/ ReturnUpcoming
    \/ BookMidnight

SpecBook == InitBook /\ [][NextBook]_vars

-----------------------------------------------------------------------------
\* Claims about the upcoming birthdays

UpcomingNames == {upcoming[i].name : i \in 1..Len(upcoming)}

\* the next occurrence of a record's birthday, seen from the call's today
OccurrenceFrom(record, t) == next_congratulation_date(record.birthday, t)

\* the records the claim puts in the result of a call made on day t
Expected(t, d) ==
    {i \in 1..Len(book) :
        /\ book[i].birthday # NoDate
        /\ 0 <= toordinal(OccurrenceFrom(book[i], t)) - toordinal(t)
        /\ toordinal(OccurrenceFrom(book[i], t)) - toordinal(t) <= d}

\* C14: the result of get_upcoming_birthdays(days_ahead) called on day today
\* holds a contact exactly when the contact has a birthday whose next
\* occurrence d has 0 <= (d - today).days <= days_ahead, and holds that d.
C14_UpcomingIffInWindow ==
    upc = "returned" =>
        /\ UpcomingNames = {book[i].name : i \in Expected(up_today, days_ahead)}
        /\ \A i \in Expected(up_today, days_ahead) :
              upcoming_entry(book[i], OccurrenceFrom(book[i], up_today))
                  \in Range(upcoming)

\* C15: the entries of the result follow the order in which the contacts'
\* keys were inserted in the store, after any adds, re-adds and deletes.
C15_UpcomingInInsertionOrder ==
    /\ \A i, j \in 1..Len(book) :
          i < j => created[book[i].name] < created[book[j].name]
    /\ \A i, j \in 1..Len(upcoming) :
          i < j => /\ upcoming[i].name \in Keys(book)
                   /\ upcoming[j].name \in Keys(book)
                   /\ created[upcoming[i].name] < created[upcoming[j].name]

\* C15 witness: after add, add and a re-add of the first name, the result
\* lists the first name first although its date is the later one.
C15_Witness ==
    /\ upc = "returned"
    /\ ops = 3
    /\ Len(upcoming) = 2
    /\ created[upcoming[1].name] = 1
    /\ created[upcoming[2].name] = 2
    /\ DateLess(upcoming[2].congratulation_day, upcoming[1].congratulation_day)

\* C16: inside one get_upcoming_birthdays call, the today each contact's
\* next occurrence is computed from is the today the window is measured
\* from, whatever the clock does during the call.
C16_OneTodayPerCall ==
    (upc \in {"loop", "returned"} /\ inner_today # NoDate) =>
        inner_today = up_today

-----------------------------------------------------------------------------
\* The fields of a record and their validation (address_book.py). Command
\* arguments are Python strings: sequences of one-character strings.

Digits == <<"0","1","2","3","4","5","6","7","8","9">>

DigitSet == Range(Digits)

AsciiLetters == (LetterSet \ {"-"}) \cup Range(UpperCase)

\* str.isdigit(): every character is a digit and there is at least one
isdigit(s) == Len(s) > 0 /\ \A i \in 1..Len(s) : s[i] \in DigitSet

\* char.isspace(), on the characters arguments are made of
isspace(ch) == ch = " "

\* Name.__init__ raises ValidationError unless this holds
Name_valid(value) ==
    /\ Len(value) > 0
    /\ ~ \E i \in 1..Len(value) : isspace(value[i])

Name_message(value) ==
    IF Len(value) = 0 THEN "Invalid name" ELSE "Name cannot contain spaces"

\* a phone check that only looks at the length
Phone_valid_length_only(value) == Len(value) = 10

\* Phone.__init__ raises ValidationError("Invalid phone number") unless this
\* holds: value.isdigit() and len(value) == 10
Phone_valid(value) == isdigit(value) /\ Len(value) = 10

\* Email.email_validation:
\* ^[A-Za-z0-9._%+-]+@[A-Za-z0-9.-]+\.[A-Za-z]{2,}$
email_validation(email) ==
    \E at \in 2..Len(email), dot \in 4..Len(email) :
        /\ at + 1 < dot
        /\ dot + 2 <= Len(email)
        /\ email[at] = "@"
        /\ email[dot] = "."
        /\ \A i \in 1..(at - 1) :
              email[i] \in AsciiLetters \cup DigitSet \cup {".", "_", "%", "+", "-"}
        /\ \A i \in (at + 1)..(dot - 1) :
              email[i] \in AsciiLetters \cup DigitSet \cup {".", "-"}
        /\ \A i \in (dot + 1)..Len(email) : email[i] \in AsciiLetters

\* int() of a string of digits
DigitValue(ch) == (CHOOSE i \in 1..Len(Digits) : Digits[i] = ch) - 1

RECURSIVE Number(_)
Number(s) ==
    IF Len(s) = 0 THEN 0
    ELSE 10 * Number(SubSeq(s, 1, Len(s) - 1)) + DigitValue(s[Len(s)])

\* datetime.strptime(value, "%d.%m.%Y").date(): one or two digits of a day
\* 1..31, a dot, one or two digits of a month 1..12, a dot, four digits of a
\* year, and the date exists; NoDate stands for the ValueError
strptime(value) ==
    LET Dots == {i \in 1..Len(value) : value[i] = "."}
        d1 == CHOOSE i \in Dots : \A j \in Dots : i <= j
        d2 == CHOOSE i \in Dots : \A j \in Dots : j <= i
        dd == SubSeq(value, 1, d1 - 1)
        mm == SubSeq(value, d1 + 1, d2 - 1)
        yy == SubSeq(value, d2 + 1, Len(value))
    IN  IF /\ Cardinality(Dots) = 2
           /\ isdigit(dd) /\ Len(dd) <= 2 /\ Number(dd) \in 1..31
           /\ isdigit(mm) /\ Len(mm) <= 2 /\ Number(mm) \in 1..12
           /\ isdigit(yy) /\ Len(yy) = 4 /\ Number(yy) >= 1
           /\ ValidDate(Date(Number(yy), Number(mm), Number(dd)))
        THEN Date(Number(yy), Number(mm), Number(dd))
        ELSE NoDate

-----------------------------------------------------------------------------
\* What a call yields: a returned value or a raised exception, and the store
\* (or record) as the call left it

Reply(kind, data) == [kind |-> kind, exc |-> "", data |-> data]

Raise(exc, data) == [kind |-> "raise", exc |-> exc, data |-> data]

Out(store, returned) == [store |-> store, reply |-> returned]

Raised(out) == out.reply.kind = "raise"

\* a method that returned None
Done(store) == Out(store, Reply("None", ""))

SuccessMessage(data) == Reply("SuccessMessage", data)

ErrorMessage(data) == Reply("ErrorMessage", data)

Message(data) == Reply("Message", data)

InvalidPhone == Raise("ValidationError", "Invalid phone number")

\* Record(name): Name(name) may raise
NewRecord(name) ==
    IF Name_valid(name) THEN Out(Record(name), Reply("Record", ""))
    ELSE Out(NoValue, Raise("ValidationError", Name_message(name)))

\* Record.add_phone: self.phones.add(Phone(phone))
add_phone(record, phone) ==
    IF Phone_valid(phone)
    THEN Done([record EXCEPT !.phones = @ \cup {phone}])
    ELSE Out(record, InvalidPhone)

\* Record.remove_phone: self.phones.remove(Phone(phone)), KeyError if absent
remove_phone(record, phone) ==
    IF ~Phone_valid(phone) THEN Out(record, InvalidPhone)
    ELSE IF phone \notin record.phones THEN Out(record, Raise("KeyError", ""))
    ELSE Done([record EXCEPT !.phones = @ \ {phone}])

\* Record.edit_phone
edit_phone(record, old_phone, new_phone) ==
    IF ~Phone_valid(old_phone) THEN Out(record, InvalidPhone)
    ELSE IF old_phone \notin record.phones
    THEN Out(record, Raise("ValidationError", "Old phone number not found"))
    ELSE IF ~Phone_valid(new_phone) THEN Out(record, InvalidPhone)
    ELSE Done([record EXCEPT !.phones = (@ \cup {new_phone}) \ {old_phone}])

\* Record.add_birthday on a string: Birthday(birthday) parses it
add_birthday_str(record, value) ==
    IF strptime(value) = NoDate
    THEN Out(record, Raise("ValidationError", "Invalid date format. Use DD.MM.YYYY"))
    ELSE Done(add_birthday(record, strptime(value)))

\* Record.add_email
add_email(record, email) ==
    IF email_validation(email) THEN Done([record EXCEPT !.email = email])
    ELSE Out(record, Raise("ValidationError", "Invalid Email"))

\* Record.add_address: Address(address) accepts every value
add_address(record, address) == Done([record EXCEPT !.address = address])

\* AddressBook.find: the place of the record in the book, 0 for None
find(bk, name) == IF name \in Keys(bk) THEN KeyIndex(bk, name) ELSE 0

\* the book after a method changed the record found at place i in place
Mutated(bk, i, record) == [bk EXCEPT ![i] = record]

-----------------------------------------------------------------------------
\* The contact handlers (handlers/handlers_address_book.py, handlers.py).
\* A handler body yields the book as it left it and what it returned or
\* raised. An optional argument left out is the empty string here: the
\* bodies only test such arguments for truth.

\* the handler with a new Record(name) put into the book on every call
add_contact_replacing(bk, name, phone, email, every_phone, added, updated) ==
    LET created_now == find(bk, name) = 0
        new         == NewRecord(name)
        bk1         == IF Raised(new) THEN bk ELSE add_record(bk, new.store)
        i           == find(bk1, name)
        with_phone  == IF every_phone \/ Len(phone) > 0
                       THEN add_phone(bk1[i], phone) ELSE Done(bk1[i])
        with_email  == IF Len(email) > 0
                       THEN add_email(with_phone.store, email)
                       ELSE Done(with_phone.store)
    IN  IF Raised(new) THEN Out(bk, new.reply)
        ELSE IF Raised(with_phone) THEN Out(bk1, with_phone.reply)
        ELSE IF Raised(with_email)
             THEN Out(Mutated(bk1, i, with_phone.store), with_email.reply)
        ELSE Out(Mutated(bk1, i, with_email.store),
                 IF created_now THEN added ELSE updated)

\* the part handle_add_contact and handle_add share; every_phone is TRUE for
\* handle_add, which adds the phone without testing it for truth
add_contact(bk, name, phone, email, every_phone, added, updated) ==
    LET created_now == find(bk, name) = 0
        new         == NewRecord(name)
        bk1         == IF created_now THEN add_record(bk, new.store) ELSE bk
        i           == find(bk1, name)
        with_phone  == IF every_phone \/ Len(phone) > 0
                       THEN add_phone(bk1[i], phone) ELSE Done(bk1[i])
        with_email  == IF Len(email) > 0
                       THEN add_email(with_phone.store, email)
                       ELSE Done(with_phone.store)
    IN  IF created_now /\ Raised(new) THEN Out(bk, new.reply)
        ELSE IF Raised(with_phone) THEN Out(bk1, with_phone.reply)
        ELSE IF Raised(with_email)
             THEN Out(Mutated(bk1, i, with_phone.store), with_email.reply)
        ELSE Out(Mutated(bk1, i, with_email.store),
                 IF created_now THEN added ELSE updated)

\* handlers/handlers_address_book.py
handle_add_contact(bk, name, phone, email) ==
    add_contact(bk, name, phone, email, FALSE,
                SuccessMessage("Contact added"), SuccessMessage("Contact updated"))

\* handlers.py
handle_add(bk, name, phone, email) ==
    add_contact(bk, name, phone, email, TRUE,
                Reply("str", "Contact added"), Reply("str", "Contact updated"))

\* a method called on the record found for name: the record is in the book
\* as the method left it, whether the method returned or raised
OnRecord(bk, name, out_of_method, returned) ==
    Out(Mutated(bk, find(bk, name), out_of_method.store),
        IF Raised(out_of_method) THEN out_of_method.reply ELSE returned)

NoneHasNoAttribute == Raise("AttributeError", "")

handle_change_contact_phone(bk, name, old_phone, new_phone) ==
    IF find(bk, name) = 0 THEN Out(bk, NoneHasNoAttribute)
    ELSE OnRecord(bk, name, edit_phone(bk[find(bk, name)], old_phone, new_phone),
                  SuccessMessage("Contact updated"))

handle_phone(bk, name) ==
    IF find(bk, name) = 0 THEN Out(bk, NoneHasNoAttribute)
    ELSE Out(bk, Message("phones"))

handle_add_birthday(bk, name, value) ==
    IF find(bk, name) = 0 THEN Out(bk, ErrorMessage("Contact not found"))
    ELSE IF bk[find(bk, name)].birthday # NoDate
    THEN Out(bk, ErrorMessage("Birthday already set"))
    ELSE OnRecord(bk, name, add_birthday_str(bk[find(bk, name)], value),
                  SuccessMessage("Birthday added"))

\* handle_add_birthday of src/handlers_address_book.py: the messages are
\* printed by simple_messege and nothing is returned after them, so the body
\* runs on to record.add_birthday; None has no attribute birthday. The data
\* of the reply is the message printed last.
handle_add_birthday_printing(bk, name, value) ==
    IF find(bk, name) = 0 THEN Out(bk, NoneHasNoAttribute)
    ELSE OnRecord(bk, name, add_birthday_str(bk[find(bk, name)], value),
                  Reply("None", "Birthday added"))

handle_update_birthday(bk, name, value) ==
    IF find(bk, name) = 0 THEN Out(bk, Reply("str", "Contact not found"))
    ELSE OnRecord(bk, name, add_birthday_str(bk[find(bk, name)], value),
                  Reply("str", "Birthday updated"))

handle_update_email(bk, name, email) ==
    IF find(bk, name) = 0 THEN Out(bk, Reply("str", "Contact not found"))
    ELSE OnRecord(bk, name, add_email(bk[find(bk, name)], email),
                  Reply("str", "Email updated"))

handle_update_address(bk, name, address) ==
    IF find(bk, name) = 0 THEN Out(bk, Reply("str", "Contact not found"))
    ELSE OnRecord(bk, name, add_address(bk[find(bk, name)], address),
                  Reply("str", "Address updated"))

handle_delete(bk, name) ==
    IF find(bk, name) = 0 THEN Out(bk, Reply("str", "Contact not found"))
    ELSE Out(delete(bk, name), Reply("str", "Contact deleted"))

handle_add_phone(bk, name, phone) ==
    IF find(bk, name) = 0 THEN Out(bk, ErrorMessage("Contact not found"))
    ELSE OnRecord(bk, name, add_phone(bk[find(bk, name)], phone),
                  SuccessMessage("Phone added"))

\* the KeyError of remove_phone is caught in the handler
handle_remove_phone(bk, name, phone) ==
    IF find(bk, name) = 0 THEN Out(bk, ErrorMessage("Contact not found"))
    ELSE LET removed == remove_phone(bk[find(bk, name)], phone)
         IN  IF Raised(removed) /\ removed.reply.exc = "KeyError"
             THEN OnRecord(bk, name, Done(removed.store),
                           ErrorMessage("Phone number not found"))
             ELSE OnRecord(bk, name, removed, SuccessMessage("Phone removed"))

-----------------------------------------------------------------------------
\* Notes (note_book.py) and the note handlers (handlers/handlers_note_book.py).
\* The note store is [data, last_id]: NoteBook.data as the sequence of its
\* notes in dict order, and the class attribute Note.last_id.

RECURSIVE lstrip(_, _)
\* str.lstrip(chars)
lstrip(s, chars) ==
    IF Len(s) > 0 /\ s[1] \in chars THEN lstrip(Tail(s), chars) ELSE s

RECURSIVE rstrip(_, _)
rstrip(s, chars) ==
    IF Len(s) > 0 /\ s[Len(s)] \in chars
    THEN rstrip(SubSeq(s, 1, Len(s) - 1), chars) ELSE s

\* str.strip()
strip(s) == rstrip(lstrip(s, {" "}), {" "})

RECURSIVE join(_)
\* " ".join(parts)
join(parts) ==
    IF Len(parts) = 0 THEN <<>>
    ELSE IF Len(parts) = 1 THEN parts[1]
    ELSE parts[1] \o <<" ">> \o join(Tail(parts))

\* int(s) succeeds: digits, after an optional sign, inside optional blanks
is_int(s) ==
    LET t == strip(s)
    IN  Len(t) > 0 /\ isdigit(IF t[1] \in {"+", "-"} THEN Tail(t) ELSE t)

\* int(s)
int(s) ==
    LET t == strip(s)
    IN  IF t[1] = "-" THEN 0 - Number(Tail(t))
        ELSE IF t[1] = "+" THEN Number(Tail(t))
        ELSE Number(t)

InvalidInt == Raise("ValueError", "")

\* a counter that every note finds as it was
last_id_kept(last_id) == last_id

\* Note.__init__: Note.last_id += 1
last_id_incremented(last_id) == last_id + 1

\* Note(text): the id is Note.last_id, which is then incremented
Note(text, id) == [id |-> id, text |-> text, tags |-> {}]

NoteIds(nb) == {nb.data[i].id : i \in 1..Len(nb.data)}

NoteIndex(nb, id) == CHOOSE i \in 1..Len(nb.data) : nb.data[i].id = id

\* NoteBook.find_by_id: the place of the note, 0 for None
find_by_id(nb, id) == IF id \in NoteIds(nb) THEN NoteIndex(nb, id) ELSE 0

\* NoteBook.add_note: self.data[note.id] = note
add_note(nb, note) ==
    IF note.id \in NoteIds(nb)
    THEN [nb EXCEPT !.data[NoteIndex(nb, note.id)] = note]
    ELSE [nb EXCEPT !.data = Append(@, note)]

\* NoteBook.delete_note: del self.data[note_id]
delete_note(nb, id) ==
    IF id \in NoteIds(nb)
    THEN Done([nb EXCEPT !.data = SelectSeq(@, LAMBDA n : n.id # id)])
    ELSE Out(nb, Raise("KeyError", ""))

NoteMissing == Raise("NoteError", "Note does not exist")

\* Note.delete_tag
delete_tag(note, tag) ==
    IF lower(strip(tag)) \in note.tags
    THEN Done([note EXCEPT !.tags = @ \ {lower(strip(tag))}])
    ELSE Out(note, Raise("NoteError", "Tag not found"))

\* an update_tag that stores the new tag before it looks for the old one
update_tag_add_first(note, old_tag, new_tag) ==
    IF lower(strip(old_tag)) \notin note.tags
    THEN Out([note EXCEPT !.tags = @ \cup {lower(strip(new_tag))}],
             Raise("NoteError", "Tag doesn't exit"))
    ELSE Done([note EXCEPT !.tags =
                  (@ \ {lower(strip(old_tag))}) \cup {lower(strip(new_tag))}])

\* Note.update_tag
update_tag(note, old_tag, new_tag) ==
    IF lower(strip(old_tag)) \notin note.tags
    THEN Out(note, Raise("NoteError", "Tag doesn't exit"))
    ELSE Done([note EXCEPT !.tags =
                  (@ \ {lower(strip(old_tag))}) \cup {lower(strip(new_tag))}])

\* a method called on the note found for id: the note is in the book as the
\* method left it, whether the method returned or raised
OnNote(nb, id, out_of_method, returned) ==
    Out([nb EXCEPT !.data[find_by_id(nb, id)] = out_of_method.store],
        IF Raised(out_of_method) THEN out_of_method.reply ELSE returned)

\* the tags of add-note: raw_tag.lstrip("#").strip().lower(), if not empty
cleaned_tags(tag_parts) ==
    {lower(strip(lstrip(tag_parts[i], {"#"}))) : i \in 1..Len(tag_parts)}
        \ {<<>>}

\* the tags of add-tag: t.lstrip('#').lower() for the t with t.strip()
cleaned(tags) ==
    {lower(lstrip(tags[i], {"#"})) :
        i \in {j \in 1..Len(tags) : Len(strip(tags[j])) > 0}}

TagsFlag == <<"-", "-", "t", "a", "g", "s">>

\* args.index("--tags"), 0 when "--tags" is not in args
tag_index(args) ==
    IF \E i \in 1..Len(args) : args[i] = TagsFlag
    THEN CHOOSE i \in 1..Len(args) :
            args[i] = TagsFlag /\ \A j \in 1..(i - 1) : args[j] # TagsFlag
    ELSE 0

handle_add_note(nb, args) ==
    LET text_parts == IF tag_index(args) = 0 THEN args
                      ELSE SubSeq(args, 1, tag_index(args) - 1)
        tag_parts  == IF tag_index(args) = 0 THEN <<>>
                      ELSE SubSeq(args, tag_index(args) + 1, Len(args))
        text       == strip(join(text_parts))
        note       == [Note(text, nb.last_id) EXCEPT !.tags = cleaned_tags(tag_parts)]
    IN  IF Len(args) = 0 THEN Out(nb, ErrorMessage("Please provide note text."))
        ELSE IF Len(text) = 0 THEN Out(nb, ErrorMessage("Note text cannot be empty."))
        ELSE Out(add_note([nb EXCEPT !.last_id = last_id_incremented(@)], note),
                 SuccessMessage("Note added"))

handle_find_note_by_tag(nb, tag) ==
    LET normalized == lower(lstrip(strip(tag), {"#"}))
    IN  IF Len(normalized) = 0
        THEN Out(nb, ErrorMessage("Please provide a non-empty tag."))
        ELSE IF \E i \in 1..Len(nb.data) : normalized \in nb.data[i].tags
        THEN Out(nb, Reply("TableMessage", "notes"))
        ELSE Out(nb, ErrorMessage("No notes found for tag."))

handle_update_note(nb, note_id, new_text_parts) ==
    IF Len(new_text_parts) = 0
    THEN Out(nb, ErrorMessage("Please provide new note text."))
    ELSE IF Len(strip(join(new_text_parts))) = 0
    THEN Out(nb, ErrorMessage("New text cannot be empty."))
    ELSE IF ~is_int(note_id) THEN Out(nb, InvalidInt)
    ELSE IF find_by_id(nb, int(note_id)) = 0 THEN Out(nb, NoteMissing)
    ELSE Out([nb EXCEPT !.data[find_by_id(nb, int(note_id))].text =
                            strip(join(new_text_parts))],
             SuccessMessage("Note updated"))

handle_delete_note(nb, note_id) ==
    IF ~is_int(note_id) THEN Out(nb, InvalidInt)
    ELSE IF Raised(delete_note(nb, int(note_id)))
    THEN delete_note(nb, int(note_id))
    ELSE Out(delete_note(nb, int(note_id)).store, SuccessMessage("Note deleted"))

handle_add_tag(nb, note_id, tags) ==
    IF Len(tags) = 0 THEN Out(nb, ErrorMessage("Please provide at least one tag."))
    ELSE IF cleaned(tags) = {} THEN Out(nb, ErrorMessage("No valid tags provided."))
    ELSE IF ~is_int(note_id) THEN Out(nb, InvalidInt)
    ELSE IF find_by_id(nb, int(note_id)) = 0
    THEN Out(nb, ErrorMessage("Note not found."))
    ELSE Out([nb EXCEPT !.data[find_by_id(nb, int(note_id))].tags =
                            @ \cup cleaned(tags)],
             SuccessMessage("Tags added"))

handle_delete_tag(nb, note_id, tag) ==
    IF ~is_int(note_id) THEN Out(nb, InvalidInt)
    ELSE IF find_by_id(nb, int(note_id)) = 0 THEN Out(nb, NoteMissing)
    ELSE OnNote(nb, int(note_id),
                delete_tag(nb.data[find_by_id(nb, int(note_id))], tag),
                SuccessMessage("Tag removed"))

handle_update_tag(nb, note_id, old_tag, new_tag) ==
    IF ~is_int(note_id) THEN Out(nb, InvalidInt)
    ELSE IF find_by_id(nb, int(note_id)) = 0 THEN Out(nb, NoteMissing)
    ELSE OnNote(nb, int(note_id),
                update_tag(nb.data[find_by_id(nb, int(note_id))], old_tag, new_tag),
                SuccessMessage("Tag updated"))

-----------------------------------------------------------------------------
\* The decorator input_error and the dispatch of a command to its handler

CaughtByInputError ==
    {"TypeError", "ValueError", "AttributeError", "KeyError",
     "ValidationError", "NoteError"}

NotFoundText(item_name) ==
    IF item_name = "Contact" THEN "Contact not found"
    ELSE IF item_name = "Note" THEN "Note not found"
    ELSE "Item not found"

\* the text the wrapper returns for a caught exception
ErrorText(item_name, raised) ==
    IF raised.exc = "TypeError" THEN "Invalid number of parameters"
    ELSE IF raised.exc = "ValueError"
    THEN "Invalid input. Please enter the correct data"
    ELSE IF raised.exc \in {"AttributeError", "KeyError"}
    THEN NotFoundText(item_name)
    ELSE raised.data

\* utils.input_error(item_name): the wrapper around a handler's outcome
input_error(item_name, out) ==
    IF Raised(out) /\ out.reply.exc \in CaughtByInputError
    THEN Out(out.store, ErrorMessage(ErrorText(item_name, out.reply)))
    ELSE out

\* handlers.input_error: the same exceptions, answered with plain strings
input_error_str(out) ==
    IF Raised(out) /\ out.reply.exc \in CaughtByInputError
    THEN Out(out.store, Reply("str", ErrorText("Contact", out.reply)))
    ELSE out

\* the registries: handlers/handlers_address_book.commands with the 'add'
\* of handlers.book_commands, and handlers/handlers_note_book.commands;
\* of the handlers that only read a store, show-phone and search-tag are kept
book_commands ==
    {"add-contact", "add", "change-phone", "show-phone", "add-phone",
     "remove-phone", "add-birthday", "update-birthday", "delete-contact",
     "update-email", "update-address"}

note_commands ==
    {"add-note", "search-tag", "update-note", "delete-note", "add-tag",
     "delete-tag", "update-tag"}

\* the numbers of arguments after the store a handler's signature accepts;
\* MaxArgs stands for no upper limit (*args)
MaxArgs == 5

Arity(h) ==
    CASE h \in {"add-contact", "add"} -> 2..3
      [] h = "change-phone" -> {3}
      [] h \in {"show-phone", "delete-contact", "search-tag", "delete-note"} -> {1}
      [] h \in {"add-phone", "remove-phone", "add-birthday", "update-birthday",
                "update-email", "update-address", "delete-tag"} -> {2}
      [] h = "update-tag" -> {3}
      [] h = "add-note" -> 0..MaxArgs
      [] h \in {"update-note", "add-tag"} -> 1..MaxArgs

\* the argument at place i, or the empty string for a default of None
Arg(a, i) == IF i <= Len(a) THEN a[i] ELSE <<>>

\* the body of handler h run on its store with arguments a
Body(h, store, a) ==
    CASE h = "add-contact" -> handle_add_contact(store, a[1], a[2], Arg(a, 3))
      [] h = "add" -> handle_add(store, a[1], a[2], Arg(a, 3))
      [] h = "change-phone" -> handle_change_contact_phone(store, a[1], a[2], a[3])
      [] h = "show-phone" -> handle_phone(store, a[1])
      [] h = "add-phone" -> handle_add_phone(store, a[1], a[2])
      [] h = "remove-phone" -> handle_remove_phone(store, a[1], a[2])
      [] h = "add-birthday" -> handle_add_birthday(store, a[1], a[2])
      [] h = "update-birthday" -> handle_update_birthday(store, a[1], a[2])
      [] h = "delete-contact" -> handle_delete(store, a[1])
      [] h = "update-email" -> handle_update_email(store, a[1], a[2])
      [] h = "update-address" -> handle_update_address(store, a[1], a[2])
      [] h = "add-note" -> handle_add_note(store, a)
      [] h = "search-tag" -> handle_find_note_by_tag(store, a[1])
      [] h = "update-note" -> handle_update_note(store, a[1], Tail(a))
      [] h = "delete-note" -> handle_delete_note(store, a[1])
      [] h = "add-tag" -> handle_add_tag(store, a[1], Tail(a))
      [] h = "delete-tag" -> handle_delete_tag(store, a[1], a[2])
      [] h = "update-tag" -> handle_update_tag(store, a[1], a[2], a[3])

\* func(store, *args): a call that does not fit the signature raises
\* TypeError before the body runs
call(h, store, a) ==
    IF Len(a) \in Arity(h) THEN Body(h, store, a)
    ELSE Out(store, Raise("TypeError", ""))

\* the registered, decorated handler
handler(h, store, a) ==
    IF h = "add" THEN input_error_str(call(h, store, a))
    ELSE IF h \in book_commands THEN input_error("Contact", call(h, store, a))
    ELSE input_error("Note", call(h, store, a))

-----------------------------------------------------------------------------
\* SpecHandlers: commands dispatched to the handlers, on both stores

s_John == <<"J", "o", "h", "n">>
s_Jane == <<"J", "a", "n", "e">>
s_spaced == <<"A", " ", "B">>
s_1234567890 == <<"1", "2", "3", "4", "5", "6", "7", "8", "9", "0">>
s_0987654321 == <<"0", "9", "8", "7", "6", "5", "4", "3", "2", "1">>
s_invalid == <<"i", "n", "v", "a", "l", "i", "d">>
s_123456789a == <<"1", "2", "3", "4", "5", "6", "7", "8", "9", "a">>
s_mail == <<"j", "@", "x", ".", "i", "o">>
s_other_mail == <<"k", "@", "x", ".", "i", "o">>
s_no_mail == <<"j", "@", "x">>
s_31_10_1990 == <<"3", "1", ".", "1", "0", ".", "1", "9", "9", "0">>
s_1_1_2000 == <<"1", ".", "1", ".", "2", "0", "0", "0">>
s_31_02_1990 == <<"3", "1", ".", "0", "2", ".", "1", "9", "9", "0">>
s_Kyiv == <<"K", "y", "i", "v">>

\* a known or an unknown name; for add-contact also a malformed or empty one
NameArgs == {s_John, s_Jane}
NewNameArgs == NameArgs \cup {s_spaced, <<>>}

\* two phones, a malformed phone, and ten characters that are not all
\* digits; for add-contact the two phones, the malformed one and the empty
\* string
PhoneArgs == {s_1234567890, s_0987654321, s_invalid, s_123456789a}
NewPhoneArgs == {s_1234567890, s_0987654321, s_invalid, <<>>}

\* an email and a malformed email; for add-contact also another email and
\* no email
EmailArgs == {s_mail, s_no_mail}
NewEmailArgs == EmailArgs \cup {s_other_mail, <<>>}

\* two dates, and a date that does not exist
DateArgs == {s_31_10_1990, s_1_1_2000, s_31_02_1990}

\* note ids: the first two ids, and a string that is no number
IdArgs == {<<"1">>, <<"2">>, <<"x">>}

\* tags as typed: plain, with '#' and an upper-case letter, blank
TagArgs == {<<"a">>, <<"#", "B">>, <<" ">>}

\* the tags of delete-tag and update-tag: stored ones and one never stored
OldTagArgs == {<<"a">>, <<"B">>, <<"c">>}

\* the argument lists of add-note
NoteArgs ==
    {<<>>, <<<<"t">>>>, <<<<"t">>, TagsFlag, <<"a">>>>,
     <<<<"t">>, TagsFlag, <<"#", "B">>, <<" ">>>>, <<TagsFlag, <<"a">>>>}

\* argument lists that fit no fixed signature: none, and four arguments
MisfitArgs == {<<>>, <<s_John, s_1234567890, s_mail, s_Kyiv>>}

\* the book of the handler tests: John with one phone
FixtureBook == <<[Record(s_John) EXCEPT !.phones = {s_1234567890}]>>

EmptyNotes == [data |-> <<>>, last_id |-> 1]

InitHandlers ==
    /\ book \in {<<>>, FixtureBook}
    /\ created = [n \in Names |-> 0]
    /\ ops = 0
    /\ clock = NoDate
    /\ ticks = 0
    /\ days_ahead = 0
    /\ up_today = NoDate
    /\ inner_today = NoDate
    /\ up_idx = 0
    /\ upcoming = <<>>
    /\ upc = "off"
    /\ notes = EmptyNotes
    /\ command = NoCommand
    /\ reply = NoReply
    /\ cmds = 0
    /\ InitVariantsIdle
    /\ InitSuggestIdle
    /\ InitBirthdayIdle
    /\ InitMainIdle
    /\ InitStoreIdle

UnchangedOutsideHandlers ==
    /\ UNCHANGED <<created, ops, clock, ticks, days_ahead, up_today,
                   inner_today, up_idx, upcoming, upc>>
    /\ UNCHANGED varsMain
    /\ UNCHANGED varsStore
    /\ UNCHANGED varsVariants
    /\ UNCHANGED varsSuggest
    /\ UNCHANGED varsBirthday

\* main: func(address_book, *args) for a command of book_commands
DispatchBook(h, a) ==
    /\ cmds < MaxCmds
    /\ \E out \in {handler(h, book, a)} :
          /\ book' = out.store
          /\ reply' = out.reply
    /\ command' = [name |-> h, args |-> a]
    /\ cmds' = cmds + 1
    /\ UNCHANGED notes
    /\ UnchangedOutsideHandlers

\* main: func(notes_book, *args) for a command of note_commands
DispatchNote(h, a) ==
    /\ cmds < MaxCmds
    /\ \E out \in {handler(h, notes, a)} :
          /\ notes' = out.store
          /\ reply' = out.reply
    /\ command' = [name |-> h, args |-> a]
    /\ cmds' = cmds + 1
    /\ UNCHANGED book
    /\ UnchangedOutsideHandlers

AddContact ==
    \E h \in {"add-contact", "add"}, name \in NewNameArgs, phone \in NewPhoneArgs :
        \E email \in IF h = "add" THEN {s_mail, <<>>} ELSE NewEmailArgs :
            DispatchBook(h, IF email = <<>> THEN <<name, phone>>
                            ELSE <<name, phone, email>>)

ChangePhone ==
    \E name \in NameArgs, old_phone \in PhoneArgs, new_phone \in PhoneArgs :
        DispatchBook("change-phone", <<name, old_phone, new_phone>>)

ShowPhone == \E name \in NameArgs : DispatchBook("show-phone", <<name>>)

AddPhone ==
    \E name \in NameArgs, phone \in PhoneArgs :
        DispatchBook("add-phone", <<name, phone>>)

RemovePhone ==
    \E name \in NameArgs, phone \in PhoneArgs :
        DispatchBook("remove-phone", <<name, phone>>)

AddBirthday ==
    \E name \in NameArgs, value \in DateArgs :
        DispatchBook("add-birthday", <<name, value>>)

\* add-birthday as src/handlers_address_book.py registers it
AddBirthdayPrinting ==
    \E name \in NameArgs, value \in DateArgs :
        /\ cmds < MaxCmds
        /\ \E out \in {input_error("Contact",
                            handle_add_birthday_printing(book, name, value))} :
              /\ book' = out.store
              /\ reply' = out.reply
        /\ command' = [name |-> "add-birthday", args |-> <<name, value>>]
        /\ cmds' = cmds + 1
        /\ UNCHANGED notes
        /\ UnchangedOutsideHandlers

UpdateBirthday ==
    \E name \in NameArgs, value \in DateArgs :
        DispatchBook("update-birthday", <<name, value>>)

DeleteContact == \E name \in NameArgs : DispatchBook("delete-contact", <<name>>)

UpdateEmail ==
    \E name \in NameArgs, email \in EmailArgs :
        DispatchBook("update-email", <<name, email>>)

UpdateAddress ==
    \E name \in NameArgs : DispatchBook("update-address", <<name, s_Kyiv>>)

AddNote == \E a \in NoteArgs : DispatchNote("add-note", a)

SearchTag == \E tag \in TagArgs : DispatchNote("search-tag", <<tag>>)

UpdateNote ==
    \E id \in IdArgs, a \in {<<>>, <<<<"u">>>>, <<<<" ">>>>} :
        DispatchNote("update-note", <<id>> \o a)

DeleteNote == \E id \in IdArgs : DispatchNote("delete-note", <<id>>)

AddTag ==
    \E id \in IdArgs, a \in {<<>>, <<<<"a">>>>, <<<<"#", "B">>, <<" ">>>>, <<<<" ">>>>,
                             <<<<"#">>>>, <<<<" ", "a">>>>} :
        DispatchNote("add-tag", <<id>> \o a)

DeleteTag ==
    \E id \in IdArgs, tag \in OldTagArgs : DispatchNote("delete-tag", <<id, tag>>)

UpdateTag ==
    \E id \in IdArgs, old_tag \in OldTagArgs,
       new_tag \in {<<"a">>, <<"c">>, <<"#", "c">>, <<>>} :
        DispatchNote("update-tag", <<id, old_tag, new_tag>>)

\* a command typed with too few or too many arguments
Misfit ==
    \E a \in MisfitArgs :
        \/ \E h \in book_commands : DispatchBook(h, a)
        \/ \E h \in note_commands \ {"add-note"} : DispatchNote(h, a)

NextHandlers ==
    \/ AddContact
    \/ ChangePhone
    \/ ShowPhone
    \/ AddPhone
    \/ RemovePhone
    \/ AddBirthday
    \/ AddBirthdayPrinting
    \/ UpdateBirthday
    \/ DeleteContact
    \/ UpdateEmail
    \/ UpdateAddress
    \/ AddNote
    \/ SearchTag
    \/ UpdateNote
    \/ DeleteNote
    \/ AddTag
    \/ DeleteTag
    \/ UpdateTag
    \/ Misfit

SpecHandlers == InitHandlers /\ [][NextHandlers]_vars

-----------------------------------------------------------------------------
\* Claims about failing commands

\* the texts of the validation failures of Name, Phone, Birthday and Email
ValidationTexts ==
    {"Invalid name", "Name cannot contain spaces", "Invalid phone number",
     "Invalid date format. Use DD.MM.YYYY", "Invalid Email"}

FailedValidation(r) ==
    r.kind \in {"ErrorMessage", "str"} /\ r.data \in ValidationTexts

Dispatched == cmds' = cmds + 1

\* C17: a command that fails validation (malformed name, phone, date or
\* email) leaves the contact store exactly as it was: no contact is created
\* and no field of an existing contact is changed.
C17_ValidationFailureKeepsBook ==
    [][ (Dispatched /\ FailedValidation(reply')) => book' = book ]_vars

\* the command of the step names a contact the book does not hold
UnknownContact ==
    /\ command'.name \in book_commands \ {"add-contact", "add"}
    /\ Len(command'.args) \in Arity(command'.name)
    /\ command'.args[1] \notin Keys(book)

\* the command of the step names a well-formed phone its contact does not have
UnknownPhone ==
    /\ command'.name \in {"change-phone", "remove-phone"}
    /\ Len(command'.args) \in Arity(command'.name)
    /\ command'.args[1] \in Keys(book)
    /\ Phone_valid(command'.args[2])
    /\ command'.args[2] \notin book[KeyIndex(book, command'.args[1])].phones

\* the command of the step names a number that is the id of no note
UnknownNoteId ==
    /\ command'.name \in {"update-note", "delete-note", "add-tag", "delete-tag",
                          "update-tag"}
    /\ Len(command'.args) \in Arity(command'.name)
    /\ is_int(command'.args[1])
    /\ int(command'.args[1]) \notin NoteIds(notes)

\* the command of the step names a tag its note does not have
UnknownTag ==
    /\ command'.name \in {"delete-tag", "update-tag"}
    /\ Len(command'.args) \in Arity(command'.name)
    /\ is_int(command'.args[1])
    /\ int(command'.args[1]) \in NoteIds(notes)
    /\ lower(strip(command'.args[2])) \notin
          notes.data[NoteIndex(notes, int(command'.args[1]))].tags

\* a value that tells the caller of a failure
FailureValue(r) ==
    \/ r.kind = "ErrorMessage"
    \/ r.kind = "str" /\ r.data = "Contact not found"

\* C18: a command that names an unknown contact, an unknown phone of a
\* contact, an unknown note id or an unknown tag returns a failure value and
\* leaves the contact store and the note store unchanged.
C18_NotFoundKeepsStores ==
    [][ (Dispatched /\ (UnknownContact \/ UnknownPhone \/ UnknownNoteId \/ UnknownTag))
            => (FailureValue(reply') /\ book' = book /\ notes' = notes) ]_vars

\* C18 witness: update-tag named a tag the note does not have, on a note
\* that has another tag, and was answered with the failure.
C18_Witness ==
    /\ command.name = "update-tag"
    /\ reply = ErrorMessage("Tag doesn't exit")
    /\ Len(notes.data) = 1
    /\ notes.data[1].tags = {<<"a">>}

-----------------------------------------------------------------------------
\* Claims about the fields of a record

StoredPhones == UNION {book[i].phones : i \in 1..Len(book)}

TenDigits(value) ==
    /\ Len(value) = 10
    /\ \A i \in 1..Len(value) : value[i] \in DigitSet

\* the step adds to a contact a phone the contact already has
AddsPresentPhone ==
    /\ Dispatched
    /\ command'.name \in {"add-phone", "add-contact", "add"}
    /\ Len(command'.args) = 2
    /\ command'.args[1] \in Keys(book)
    /\ command'.args[2] \in book[KeyIndex(book, command'.args[1])].phones

AddOnKnownName ==
    /\ Dispatched
    /\ command'.name \in {"add-contact", "add"}
    /\ Len(command'.args) \in Arity(command'.name)
    /\ command'.args[1] \in Keys(book)

\* the record and the place of the contact named by the step
Place == KeyIndex(book, command'.args[1])

\* the record is the one found: the book holds the same names at the same
\* places, and the record keeps birthday, address and the phones it had
KeptInPlace ==
    /\ Len(book') = Len(book)
    /\ \A i \in 1..Len(book) : i # Place => book'[i] = book[i]
    /\ book'[Place].name = book[Place].name
    /\ book'[Place].birthday = book[Place].birthday
    /\ book'[Place].address = book[Place].address
    /\ book[Place].phones \subseteq book'[Place].phones

\* on success the phone of the command is one of the phones of the record
PhoneAdded ==
    reply'.data = "Contact updated" =>
        (Len(command'.args[2]) > 0 => command'.args[2] \in book'[Place].phones)

\* a record is created only by add-contact (or add) on an unknown name
CreatedOnlyWhenUnknown ==
    (Dispatched /\ ~(Keys(book') \subseteq Keys(book))) =>
        /\ command'.name \in {"add-contact", "add"}
        /\ command'.args[1] \notin Keys(book)
        /\ Keys(book') = Keys(book) \cup {command'.args[1]}
        /\ SubSeq(book', 1, Len(book)) = book

\* C22 as stated: add-contact on a name already in the store keeps the
\* record in place with its phones, birthday, email and address, and adds the
\* new phone; a record is created only when the name is unknown.
C22_EmailKept ==
    [][ /\ AddOnKnownName => (KeptInPlace /\ PhoneAdded
                                 /\ book'[Place].email = book[Place].email)
        /\ CreatedOnlyWhenUnknown ]_vars

\* C22, amended: add-contact on a name already in the store keeps the record
\* in place with its phones, birthday and address, and adds the new phone;
\* the email is kept when the command carries no email, and is replaced by
\* the email of the command when that email is valid; a record is created
\* only when the name is unknown.
C22_ExistingRecordMutatedInPlace ==
    [][ /\ AddOnKnownName =>
              /\ KeptInPlace
              /\ PhoneAdded
              /\ book'[Place].email =
                    IF Len(command'.args) = 3 /\ reply'.data = "Contact updated"
                    THEN command'.args[3] ELSE book[Place].email
        /\ CreatedOnlyWhenUnknown ]_vars

\* C22 witness: John had a phone; add-contact with another phone and an
\* email was answered "Contact updated", and the record holds both phones
\* and the email of the command.
C22_Witness ==
    /\ command = [name |-> "add-contact",
                  args |-> <<s_John, s_0987654321, s_other_mail>>]
    /\ reply = SuccessMessage("Contact updated")
    /\ Len(book) = 1
    /\ book[1].phones = {s_1234567890, s_0987654321}
    /\ book[1].email = s_other_mail

\* the step is change-phone on a contact that has the old phone, and
\* edit_phone returned without an error
PhoneEdited ==
    /\ Dispatched
    /\ command'.name = "change-phone"
    /\ Len(command'.args) = 3
    /\ command'.args[1] \in Keys(book)
    /\ command'.args[2] \in book[Place].phones
    /\ reply' = SuccessMessage("Contact updated")

\* C26: for all valid 10-digit numbers old and new, old equal to new and new
\* already present included, when edit_phone(old, new) returns without error
\* on a record containing old, new is one of the phones of the record
\* afterwards.
C26_NewPhonePresentAfterEdit ==
    [][PhoneEdited => command'.args[3] \in book'[Place].phones]_vars

\* the step is add-birthday on a contact whose birthday is set
AddBirthdayOnSet ==
    /\ Dispatched
    /\ command'.name = "add-birthday"
    /\ Len(command'.args) = 2
    /\ command'.args[1] \in Keys(book)
    /\ book[Place].birthday # NoDate

\* the step replaced the birthday of a contact that had one
BirthdayReplaced ==
    \E i \in 1..Len(book) :
        /\ i <= Len(book')
        /\ book'[i].name = book[i].name
        /\ book[i].birthday # NoDate
        /\ book'[i].birthday # book[i].birthday

\* C28: add-birthday on a contact whose birthday is already set leaves the
\* stored birthday unchanged and reports that it is already set; only
\* update-birthday replaces an existing birthday.
C28_AddBirthdayKeepsSetBirthday ==
    [][ /\ AddBirthdayOnSet =>
              (book' = book /\ reply'.data = "Birthday already set")
        /\ (Dispatched /\ BirthdayReplaced) =>
              command'.name = "update-birthday" ]_vars

-----------------------------------------------------------------------------
\* Claims about notes

\* the step created a note and added it to the book
NoteCreated ==
    /\ Dispatched
    /\ command'.name = "add-note"
    /\ reply' = SuccessMessage("Note added")

\* the ids of the notes of the book increase in the order the notes were
\* added, and the counter is above them all
IdsIncrease ==
    /\ \A i, j \in 1..Len(notes.data) :
          i < j => notes.data[i].id < notes.data[j].id
    /\ \A i \in 1..Len(notes.data) : notes.data[i].id < notes.last_id

\* C23: notes created in the same process receive different ids that
\* strictly increase in creation order, so adding a newly created note to a
\* book of notes created in this process never overwrites a note: the book
\* gains one note and keeps the others.
C23_NoteIdsUniqueAndIncreasing ==
    /\ []IdsIncrease
    /\ [][NoteCreated =>
            /\ Len(notes'.data) = Len(notes.data) + 1
            /\ SubSeq(notes'.data, 1, Len(notes.data)) = notes.data
            /\ notes'.data[Len(notes'.data)].id = notes.last_id
            /\ notes.last_id \notin NoteIds(notes)]_vars

\* C23 witness: a second note was created and the book holds both, with
\* the ids 1 and 2.
C23_Witness ==
    /\ command.name = "add-note"
    /\ reply = SuccessMessage("Note added")
    /\ Len(notes.data) = 2
    /\ notes.data[1].id = 1
    /\ notes.data[2].id = 2

StoredTags == UNION {notes.data[i].tags : i \in 1..Len(notes.data)}

\* C24: after any sequence of add-note, add-tag, update-tag and delete-tag
\* commands every tag stored on every note is a non-empty lowercase string
\* with no leading '#'.
C24_TagsAreClean ==
    \A t \in StoredTags : /\ Len(t) > 0
                          /\ lower(t) = t
                          /\ t[1] # "#"

-----------------------------------------------------------------------------
\* SpecLoop: lines 39-60 of main.py with the registries main.py imports
\* (from handlers import book_commands, note_commands: the module handlers.py,
\* which is found before the directory handlers without an __init__.py) and
\* the suggester over the registries intelligent_command.py imports

\* handlers.py: the keys of book_commands, in the order of the dict literal
handlers_book_commands ==
    << <<"h", "e", "l", "l", "o">>,
       <<"h", "e", "l", "p">>,
       <<"a", "d", "d">>,
       <<"c", "h", "a", "n", "g", "e">>,
       <<"p", "h", "o", "n", "e">>,
       <<"a", "l", "l">>,
       <<"a", "d", "d", "-", "b", "i", "r", "t", "h", "d", "a", "y">>,
       <<"s", "h", "o", "w", "-", "b", "i", "r", "t", "h", "d", "a", "y">>,
       <<"u", "p", "d", "a", "t", "e", "-", "b", "i", "r", "t", "h", "d", "a", "y">>,
       <<"b", "i", "r", "t", "h", "d", "a", "y", "s">>,
       <<"s", "e", "a", "r", "c", "h", "-", "c", "o", "n", "t", "a", "c", "t">>,
       <<"d", "e", "l", "e", "t", "e", "-", "c", "o", "n", "t", "a", "c", "t">>,
       <<"u", "p", "d", "a", "t", "e", "-", "e", "m", "a", "i", "l">>,
       <<"u", "p", "d", "a", "t", "e", "-", "a", "d", "d", "r", "e", "s", "s">> >>

\* handlers.py: the keys of note_commands
handlers_note_commands ==
    << <<"a", "d", "d", "-", "n", "o", "t", "e">>,
       <<"a", "l", "l", "-", "n", "o", "t", "e", "s">>,
       <<"f", "i", "n", "d", "-", "n", "o", "t", "e", "-", "t", "a", "g">>,
       <<"s", "o", "r", "t", "-", "n", "o", "t", "e", "s">>,
       <<"u", "p", "d", "a", "t", "e", "-", "n", "o", "t", "e">>,
       <<"d", "e", "l", "e", "t", "e", "-", "n", "o", "t", "e">>,
       <<"a", "d", "d", "-", "t", "a", "g">>,
       <<"d", "e", "l", "e", "t", "e", "-", "t", "a", "g">>,
       <<"u", "p", "d", "a", "t", "e", "-", "t", "a", "g">> >>

\* handlers/handlers_address_book.py: the keys of commands
address_book_commands ==
    << <<"a", "d", "d", "-", "c", "o", "n", "t", "a", "c", "t">>,
       <<"c", "h", "a", "n", "g", "e", "-", "n", "a", "m", "e">>,
       <<"c", "h", "a", "n", "g", "e", "-", "p", "h", "o", "n", "e">>,
       <<"s", "h", "o", "w", "-", "p", "h", "o", "n", "e">>,
       <<"a", "d", "d", "-", "p", "h", "o", "n", "e">>,
       <<"r", "e", "m", "o", "v", "e", "-", "p", "h", "o", "n", "e">>,
       <<"a", "l", "l", "-", "c", "o", "n", "t", "a", "c", "t", "s">>,
       <<"a", "d", "d", "-", "b", "i", "r", "t", "h", "d", "a", "y">>,
       <<"s", "h", "o", "w", "-", "b", "i", "r", "t", "h", "d", "a", "y">>,
       <<"u", "p", "d", "a", "t", "e", "-", "b", "i", "r", "t", "h", "d", "a", "y">>,
       <<"b", "i", "r", "t", "h", "d", "a", "y", "s">>,
       <<"s", "e", "a", "r", "c", "h", "-", "c", "o", "n", "t", "a", "c", "t">>,
       <<"d", "e", "l", "e", "t", "e", "-", "c", "o", "n", "t", "a", "c", "t">>,
       <<"u", "p", "d", "a", "t", "e", "-", "e", "m", "a", "i", "l">>,
       <<"u", "p", "d", "a", "t", "e", "-", "a", "d", "d", "r", "e", "s", "s">> >>

\* handlers/handlers_note_book.py: the keys of commands
note_book_commands ==
    << <<"a", "d", "d", "-", "n", "o", "t", "e">>,
       <<"a", "l", "l", "-", "n", "o", "t", "e", "s">>,
       <<"s", "e", "a", "r", "c", "h", "-", "t", "a", "g">>,
       <<"s", "e", "a", "r", "c", "h", "-", "n", "o", "t", "e">>,
       <<"u", "p", "d", "a", "t", "e", "-", "n", "o", "t", "e">>,
       <<"d", "e", "l", "e", "t", "e", "-", "n", "o", "t", "e">>,
       <<"a", "d", "d", "-", "t", "a", "g">>,
       <<"d", "e", "l", "e", "t", "e", "-", "t", "a", "g">>,
       <<"u", "p", "d", "a", "t", "e", "-", "t", "a", "g">> >>

\* handlers/handlers_common.py: the keys of commands
shipped_common_commands ==
    << <<"h", "e", "l", "l", "o">>,
       <<"h", "e", "l", "p">>,
       <<"d", "e", "s", "c", "r", "i", "p", "t", "i", "o", "n">>,
       <<"c", "l", "o", "s", "e">>,
       <<"e", "x", "i", "t">> >>

\* tokens typed with a slip, in capitals, or naming nothing
Slips ==
    { <<"h", "e", "l", "o">>,
      <<"H", "E", "L", "L", "O">>,
      <<"a", "d">>,
      <<"a", "d", "d", "-", "c", "o", "n", "t", "a", "c">>,
      <<"r", "e", "m", "o", "v", "e", "-", "p", "h", "o", "n">>,
      <<"x", "y", "z">>,
      <<>> }

\* COMMANDS = address_book_commands.keys() | note_book_commands.keys()
\*            | common_commands.keys(), in the order of the three dicts
ShippedCommands == address_book_commands \o note_book_commands \o shipped_common_commands

\* what is typed at the prompt: a key of a registry, or a slip
LoopTokens ==
    Range(handlers_book_commands) \cup Range(handlers_note_commands)
        \cup Range(ShippedCommands) \cup Slips

\* command, args = parse_input(user_input): cmd.lower()
typed_command == lower(misspelled)

\* func = book_commands.get(command), then note_commands.get(command)
func_found ==
    typed_command \in Range(handlers_book_commands) \cup Range(handlers_note_commands)

exit_typed == typed_command \in {<<"e", "x", "i", "t">>, <<"c", "l", "o", "s", "e">>}

InitLoop ==
    /\ registry = ShippedCommands
    /\ order = ShippedCommands
    /\ cache = [is_none |-> TRUE, items |-> <<>>]
    /\ builds = 0
    /\ misspelled \in LoopTokens
    /\ result = [kind |-> "pending", value |-> <<>>]
    /\ pc = "prompt"
    /\ InitVariantsIdle
    /\ InitBirthdayIdle
    /\ InitBookIdle
    /\ InitHandlersIdle
    /\ InitMainIdle
    /\ InitStoreIdle

UnchangedOutsideLoop ==
    /\ UNCHANGED <<registry, order>>
    /\ UNCHANGED varsVariants
    /\ UNCHANGED varsBirthday
    /\ UNCHANGED varsBook
    /\ UNCHANGED varsHandlers
    /\ UNCHANGED varsMain
    /\ UNCHANGED varsStore

\* if command in ("exit", "close"): handle_exit(...)
LoopExit ==
    /\ pc = "prompt"
    /\ exit_typed
    /\ pc' = "terminated"
    /\ result' = [kind |-> "pending", value |-> <<>>]
    /\ UNCHANGED <<cache, builds, misspelled>>
    /\ UnchangedOutsideLoop

\* func is not None: the command is dispatched
LoopDispatch ==
    /\ pc = "prompt"
    /\ ~exit_typed
    /\ func_found
    /\ pc' = "dispatched"
    /\ result' = [kind |-> "pending", value |-> <<>>]
    /\ UNCHANGED <<cache, builds, misspelled>>
    /\ UnchangedOutsideLoop

\* func is None: suggestion = suggest_command(command)
LoopSuggest ==
    /\ pc = "prompt"
    /\ ~exit_typed
    /\ ~func_found
    /\ IF exact_match(lower_misspelled(typed_command))
       THEN UNCHANGED <<cache, builds>>
       ELSE /\ cache' = command_variants
            /\ builds' = IF needs_build THEN builds + 1 ELSE builds
    /\ result' = suggest_command(typed_command, cache'.items)
    /\ pc' = "shown"
    /\ UNCHANGED misspelled
    /\ UnchangedOutsideLoop

\* continue: the next Prompt.ask
LoopRead ==
    /\ pc \in {"dispatched", "shown"}
    /\ misspelled' \in LoopTokens
    /\ pc' = "prompt"
    /\ UNCHANGED <<cache, builds, result>>
    /\ UnchangedOutsideLoop

NextLoop == LoopExit \/ LoopDispatch \/ LoopSuggest \/ LoopRead

SpecLoop == InitLoop /\ [][NextLoop]_vars

\* the names the loop can dispatch: the keys it looks up, and exit and close
Dispatchable ==
    Range(handlers_book_commands) \cup Range(handlers_note_commands)
        \cup {<<"e", "x", "i", "t">>, <<"c", "l", "o", "s", "e">>}

\* C25: every command name returned by suggest is a command the dispatcher
\* can dispatch, and a token on which the dispatcher misses is never an exact
\* member of the suggester's command set.
C25_SuggesterAndDispatcherShareRegistry ==
    pc = "shown" =>
        /\ result.kind = "str" => result.value \in Dispatchable
        /\ typed_command \notin COMMANDS

-----------------------------------------------------------------------------
\* The common handlers (handlers/handlers_common.py) and the loop of main

\* the registry of handlers_common; main answers exit and close before it
\* looks a command up
common_commands == {"hello", "help", "description", "close", "exit"}

Registered == book_commands \cup note_commands \cup (common_commands \ {"close", "exit"})

\* the key of a registry as a Python string
Spelling(h) ==
    IF h = "add-contact" THEN <<"a", "d", "d", "-", "c", "o", "n", "t", "a", "c", "t">> ELSE
    IF h = "add" THEN <<"a", "d", "d">> ELSE
    IF h = "change-phone" THEN <<"c", "h", "a", "n", "g", "e", "-", "p", "h", "o", "n", "e">> ELSE
    IF h = "show-phone" THEN <<"s", "h", "o", "w", "-", "p", "h", "o", "n", "e">> ELSE
    IF h = "add-phone" THEN <<"a", "d", "d", "-", "p", "h", "o", "n", "e">> ELSE
    IF h = "remove-phone" THEN <<"r", "e", "m", "o", "v", "e", "-", "p", "h", "o", "n", "e">> ELSE
    IF h = "add-birthday" THEN <<"a", "d", "d", "-", "b", "i", "r", "t", "h", "d", "a", "y">> ELSE
    IF h = "update-birthday" THEN <<"u", "p", "d", "a", "t", "e", "-", "b", "i", "r", "t", "h", "d", "a", "y">> ELSE
    IF h = "delete-contact" THEN <<"d", "e", "l", "e", "t", "e", "-", "c", "o", "n", "t", "a", "c", "t">> ELSE
    IF h = "update-email" THEN <<"u", "p", "d", "a", "t", "e", "-", "e", "m", "a", "i", "l">> ELSE
    IF h = "update-address" THEN <<"u", "p", "d", "a", "t", "e", "-", "a", "d", "d", "r", "e", "s", "s">> ELSE
    IF h = "add-note" THEN <<"a", "d", "d", "-", "n", "o", "t", "e">> ELSE
    IF h = "search-tag" THEN <<"s", "e", "a", "r", "c", "h", "-", "t", "a", "g">> ELSE
    IF h = "update-note" THEN <<"u", "p", "d", "a", "t", "e", "-", "n", "o", "t", "e">> ELSE
    IF h = "delete-note" THEN <<"d", "e", "l", "e", "t", "e", "-", "n", "o", "t", "e">> ELSE
    IF h = "add-tag" THEN <<"a", "d", "d", "-", "t", "a", "g">> ELSE
    IF h = "delete-tag" THEN <<"d", "e", "l", "e", "t", "e", "-", "t", "a", "g">> ELSE
    IF h = "update-tag" THEN <<"u", "p", "d", "a", "t", "e", "-", "t", "a", "g">> ELSE
    IF h = "hello" THEN <<"h", "e", "l", "l", "o">> ELSE
    IF h = "help" THEN <<"h", "e", "l", "p">> ELSE
    IF h = "description" THEN <<"d", "e", "s", "c", "r", "i", "p", "t", "i", "o", "n">> ELSE
    IF h = "close" THEN <<"c", "l", "o", "s", "e">> ELSE
    IF h = "exit" THEN <<"e", "x", "i", "t">> ELSE
    <<>>

RECURSIVE shlex_scan(_, _, _, _, _)
\* shlex.split(s) from place i on: token so far, whether a token has begun,
\* the quote that is open ("" for none), the tokens found
shlex_scan(s, i, token, quote, acc) ==
    IF i > Len(s)
    THEN IF quote.open # "" THEN [ok |-> FALSE, parts |-> <<>>]
         ELSE [ok |-> TRUE,
               parts |-> IF quote.begun THEN Append(acc, token) ELSE acc]
    ELSE IF quote.open # ""
    THEN IF s[i] = quote.open
         THEN shlex_scan(s, i + 1, token, [open |-> "", begun |-> TRUE], acc)
         ELSE shlex_scan(s, i + 1, Append(token, s[i]), quote, acc)
    ELSE IF s[i] \in {"\"", "'"}
    THEN shlex_scan(s, i + 1, token, [open |-> s[i], begun |-> TRUE], acc)
    ELSE IF s[i] = " "
    THEN shlex_scan(s, i + 1, <<>>, [open |-> "", begun |-> FALSE],
                    IF quote.begun THEN Append(acc, token) ELSE acc)
    ELSE shlex_scan(s, i + 1, Append(token, s[i]), [open |-> "", begun |-> TRUE], acc)

\* shlex.split: ok is FALSE for ValueError("No closing quotation")
shlex_split(s) == shlex_scan(s, 1, <<>>, [open |-> "", begun |-> FALSE], <<>>)

\* parse_input: None (none is TRUE) and no arguments for a line without
\* tokens, else the first token in lower case and the other tokens
parse_input(user_input) ==
    LET parts == shlex_split(user_input).parts
    IN  IF Len(parts) = 0 THEN [none |-> TRUE, command |-> <<>>, args |-> <<>>]
        ELSE [none |-> FALSE, command |-> lower(parts[1]), args |-> Tail(parts)]

\* book_commands.get(command), then note_commands.get(command): the name of
\* a lookup that falls back on the registered name one edit away
lookup_or_suggested(cmd) ==
    IF \E h \in Registered : Spelling(h) = cmd
    THEN CHOOSE h \in Registered : Spelling(h) = cmd
    ELSE IF \E h \in Registered : cmd \in variants(Spelling(h))
    THEN CHOOSE h \in Registered : cmd \in variants(Spelling(h))
    ELSE NoValue

\* the handler, NoValue for None
lookup(cmd) ==
    IF \E h \in Registered : Spelling(h) = cmd
    THEN CHOOSE h \in Registered : Spelling(h) = cmd
    ELSE NoValue

\* @input_error without parentheses: the name description is bound to
\* input_error(description), the inner function decorator(func); called with
\* the store alone it returns the function wrapper, called with more
\* arguments the call itself raises TypeError, outside every wrapper
description(store, a) ==
    IF Len(a) = 0 THEN Out(store, Reply("function", "wrapper"))
    ELSE Out(store, Raise("TypeError", "decorator() takes 1 positional argument"))

\* handle_hello and handle_help take two stores: main passes one store and
\* the arguments
handle_hello(store, a) ==
    input_error("Item",
        IF Len(a) = 1 THEN Out(store, Reply("None", ""))
        ELSE Out(store, Raise("TypeError", "")))

\* func(store, *args) for the callable registered under h
registered(h, store, a) ==
    IF h = "description" THEN description(store, a)
    ELSE IF h \in {"hello", "help"} THEN handle_hello(store, a)
    ELSE handler(h, store, a)

\* the lines typed at the prompt
Lines ==
    {<<>>,
     <<"h", "e", "l", "l", "o">>,
     <<"h", "e", "l", "l", "o", " ", "x">>,
     <<"d", "e", "s", "c", "r", "i", "p", "t", "i", "o", "n">>,
     <<"d", "e", "s", "c", "r", "i", "p", "t", "i", "o", "n", " ", "e", "n">>,
     <<"e", "x", "i", "t">>,
     <<"C", "L", "O", "S", "E">>,
     <<"h", "e", "l", "o">>,
     <<"x", "y", "z">>,
     <<"a", "d", "d", "-", "c", "o", "n", "t", "a", "c", " ", "J", "a", "n", "e", " ", "1", "2", "3", "4", "5", "6", "7", "8", "9", "0">>,
     <<"a", "d", "d", "-", "c", "o", "n", "t", "a", "c", "t", " ", "J", "o", "h", "n", " ", "1", "2", "3", "4", "5", "6", "7", "8", "9", "0">>,
     <<"a", "d", "d", "-", "c", "o", "n", "t", "a", "c", "t", " ", "\"", "A", " ", "B", "\"", " ", "1", "2", "3", "4", "5", "6", "7", "8", "9", "0">>,
     <<"a", "d", "d", " ", "\"", "J", "o", "h", "n">>,
     <<"s", "h", "o", "w", "-", "p", "h", "o", "n", "e", " ", "J", "a", "n", "e">>,
     <<"d", "e", "l", "e", "t", "e", "-", "c", "o", "n", "t", "a", "c", "t", " ", "J", "o", "h", "n">>,
     <<"a", "d", "d", "-", "n", "o", "t", "e", " ", "t", " ", "-", "-", "t", "a", "g", "s", " ", "a">>,
     <<"d", "e", "l", "e", "t", "e", "-", "n", "o", "t", "e", " ", "1">>,
     <<"u", "p", "d", "a", "t", "e", "-", "t", "a", "g", " ", "1", " ", "a", " ", "c">>}

\* main starts with the stores loaded from storage: empty, or the book of
\* the handler tests
InitMain ==
    /\ book \in {<<>>, FixtureBook}
    /\ created = [n \in Names |-> 0]
    /\ ops = 0
    /\ clock = NoDate
    /\ ticks = 0
    /\ days_ahead = 0
    /\ up_today = NoDate
    /\ inner_today = NoDate
    /\ up_idx = 0
    /\ upcoming = <<>>
    /\ upc = "off"
    /\ notes = EmptyNotes
    /\ command = NoCommand
    /\ reply = NoReply
    /\ cmds = 0
    /\ line = <<>>
    /\ lpc = "prompt"
    /\ ended_by = ""
    /\ saved = NothingSaved
    /\ registry = ShippedCommands
    /\ order = ShippedCommands
    /\ cache = [is_none |-> TRUE, items |-> <<>>]
    /\ builds = 0
    /\ misspelled = <<>>
    /\ result = [kind |-> "pending", value |-> <<>>]
    /\ pc = "idle"
    /\ InitStoreIdle
    /\ InitVariantsIdle
    /\ InitBirthdayIdle

\* what no step of the loop touches
UnchangedOutsideLoopOfMain ==
    /\ UNCHANGED <<created, ops, clock, ticks, days_ahead, up_today,
                   inner_today, up_idx, upcoming, upc>>
    /\ UNCHANGED varsStore
    /\ UNCHANGED varsVariants
    /\ UNCHANGED varsBirthday

UnchangedOutsideMain ==
    /\ UnchangedOutsideLoopOfMain
    /\ UNCHANGED varsSuggest

\* a line is read at the prompt and the loop goes on to a next iteration
ReadAt(l) ==
    /\ lpc = "prompt"
    /\ cmds < MaxLines
    /\ line' = l
    /\ cmds' = cmds + 1

\* handle_exit(address_book, notes_book): both stores are saved, then
\* sys.exit(0) ends the process; SystemExit is no exception input_error catches
handle_exit(how) ==
    /\ saved' = [address_book |-> TRUE, notes_book |-> TRUE]
    /\ lpc' = "terminated"
    /\ ended_by' = how
    /\ reply' = Raise("SystemExit", "")
    /\ UNCHANGED <<book, notes>>

\* an exception nothing in main catches ends the process with a traceback
Uncaught(raised) ==
    /\ lpc' = "terminated"
    /\ ended_by' = "exception"
    /\ reply' = raised
    /\ UNCHANGED saved

\* KeyboardInterrupt or EOFError inside Prompt.ask
Interrupt ==
    /\ lpc = "prompt"
    /\ handle_exit("interrupt")
    /\ UNCHANGED <<line, command, cmds>>
    /\ UnchangedOutsideMain

\* parse_input(user_input) raises: shlex.split finds no closing quotation
ParseFails ==
    \E l \in Lines :
        /\ ReadAt(l)
        /\ ~shlex_split(l).ok
        /\ Uncaught(Raise("ValueError", "No closing quotation"))
        /\ command' = NoCommand
        /\ UNCHANGED <<book, notes>>
        /\ UnchangedOutsideMain

\* command is None: the line holds no token
NoCommandEntered ==
    \E l \in Lines :
        /\ ReadAt(l)
        /\ shlex_split(l).ok
        /\ parse_input(l).none
        /\ command' = NoCommand
        /\ reply' = NoReply
        /\ UNCHANGED <<book, notes, lpc, ended_by, saved>>
        /\ UnchangedOutsideMain

\* command in ("exit", "close")
ExitCommand ==
    \E l \in Lines :
        /\ ReadAt(l)
        /\ shlex_split(l).ok
        /\ ~parse_input(l).none
        /\ parse_input(l).command \in {Spelling("exit"), Spelling("close")}
        /\ command' = [name |-> "exit", args |-> parse_input(l).args]
        /\ handle_exit("exit")
        /\ UnchangedOutsideMain

\* the line names a command
Typed(l) ==
    /\ shlex_split(l).ok
    /\ ~parse_input(l).none
    /\ parse_input(l).command \notin {Spelling("exit"), Spelling("close")}

\* func is None: suggestion = suggest_command(command), and the suggestion
\* or "Invalid command." is printed; no handler is called
UnknownCommand ==
    \E l \in Lines :
        /\ ReadAt(l)
        /\ Typed(l)
        /\ lookup(parse_input(l).command) = NoValue
        /\ misspelled' = parse_input(l).command
        /\ IF exact_match(lower_misspelled(misspelled'))
           THEN UNCHANGED <<cache, builds>>
           ELSE /\ cache' = command_variants
                /\ builds' = IF needs_build THEN builds + 1 ELSE builds
        /\ result' = suggest_command(misspelled', cache'.items)
        /\ command' = NoCommand
        /\ reply' = Reply("print", IF result'.kind = "str" THEN "Did you mean"
                                   ELSE "Invalid command.")
        /\ UNCHANGED <<book, notes, lpc, ended_by, saved>>
        /\ UNCHANGED <<registry, order, pc>>
        /\ UnchangedOutsideLoopOfMain

\* func(address_book, *args) or func(notes_book, *args); what is returned is
\* shown (eval's TypeError and SyntaxError on it are caught)
DispatchCommand ==
    \E l \in Lines :
        /\ ReadAt(l)
        /\ Typed(l)
        /\ lookup(parse_input(l).command) # NoValue
        /\ LET h == lookup(parse_input(l).command)
               a == parse_input(l).args
           IN  /\ command' = [name |-> h, args |-> a]
               /\ \E out \in {registered(h, IF h \in note_commands THEN notes ELSE book, a)} :
                     /\ IF h \in note_commands
                        THEN notes' = out.store /\ UNCHANGED book
                        ELSE book' = out.store /\ UNCHANGED notes
                     /\ IF Raised(out)
                        THEN Uncaught(out.reply)
                        ELSE /\ reply' = out.reply
                             /\ UNCHANGED <<lpc, ended_by, saved>>
        /\ UnchangedOutsideMain

NextMain ==
    \/ Interrupt
    \/ ParseFails
    \/ NoCommandEntered
    \/ ExitCommand
    \/ UnknownCommand
    \/ DispatchCommand

SpecMain == InitMain /\ [][NextMain]_vars

-----------------------------------------------------------------------------
\* Claims about the loop

\* C19: every handler registered in the command registries, called by the
\* dispatcher with a store and any argument list, returns a value: no
\* exception leaves the call.
C19_HandlersReturnValues ==
    command.name \in Registered => reply.kind # "raise"

\* C20: the process ends only through exit or close or an interrupt at the
\* prompt, and whenever it has ended both the address book and the note
\* book have been saved.
C20_EndsOnlySavedByExit ==
    lpc = "terminated" =>
        /\ ended_by \in {"exit", "interrupt"}
        /\ saved.address_book
        /\ saved.notes_book

\* the step read a line whose first token is no registered command (and not
\* exit or close)
UnregisteredRead ==
    /\ Dispatched
    /\ Typed(line')
    /\ \A h \in Registered : Spelling(h) # parse_input(line').command

\* C30: a token that is not a registered command never causes a handler to
\* run: the loop only displays a suggestion or an invalid-command message and
\* reads the next command, leaving both stores unchanged; a suggestion is
\* never executed automatically.
C30_UnknownTokenRunsNoHandler ==
    [][UnregisteredRead =>
          /\ command' = NoCommand
          /\ reply'.kind = "print"
          /\ book' = book
          /\ notes' = notes
          /\ lpc' = "prompt"
          /\ saved' = saved]_vars

\* C30 witness: add-contac Jane 1234567890 was read; add-contact was
\* suggested and not run, and the book holds no Jane.
C30_Witness ==
    /\ parse_input(line).command = <<"a", "d", "d", "-", "c", "o", "n", "t", "a", "c">>
    /\ result = Str(Spelling("add-contact"))
    /\ reply = Reply("print", "Did you mean")
    /\ command = NoCommand
    /\ s_Jane \notin Keys(book)

-----------------------------------------------------------------------------
\* SpecStore: the note book saved to NoteBook.FILENAME and loaded again, in
\* the process that saved it or in a process started later

\* NoteBook.save: save((self, Note.last_id), NoteBook.FILENAME)
NoteBook_save(nb) == [exists |-> TRUE, data |-> nb.data, last_id |-> nb.last_id]

\* a load that returns the stored book and leaves Note.last_id as it is
NoteBook_load_book_only(file, last_id) ==
    [data |-> IF file.exists THEN file.data ELSE <<>>, last_id |-> last_id]

\* NoteBook.load: without a file storage.load returns NoteBook(), which is
\* returned as it is; a stored tuple is unpacked and Note.last_id set from it
NoteBook_load(file, last_id) ==
    IF ~file.exists THEN [data |-> <<>>, last_id |-> last_id]
    ELSE [data |-> file.data, last_id |-> file.last_id]

\* the first process starts: class Note is defined with last_id = 1, no
\* file is there yet
InitStore ==
    /\ notes = EmptyNotes
    /\ command = NoCommand
    /\ reply = NoReply
    /\ cmds = 0
    /\ notebook_pkl = NoFile
    /\ process = [number |-> 1, loaded |-> FALSE]
    /\ InitBookIdle
    /\ InitMainIdle
    /\ InitVariantsIdle
    /\ InitSuggestIdle
    /\ InitBirthdayIdle

UnchangedOutsideStore ==
    /\ UNCHANGED <<reply, cmds>>
    /\ UNCHANGED varsBook
    /\ UNCHANGED varsMain
    /\ UNCHANGED varsVariants
    /\ UNCHANGED varsSuggest
    /\ UNCHANGED varsBirthday

Called(method) == command' = [name |-> method, args |-> <<>>]

\* book.add_note(Note(text))
CreateNote ==
    /\ notes.last_id <= MaxNoteId
    /\ notes' = add_note([notes EXCEPT !.last_id = last_id_incremented(@)],
                         Note(<<"t">>, notes.last_id))
    /\ Called("add_note")
    /\ UNCHANGED <<notebook_pkl, process>>
    /\ UnchangedOutsideStore

\* book.delete_note(id) for a note of the book
DeleteStoredNote ==
    /\ \E id \in NoteIds(notes) : notes' = delete_note(notes, id).store
    /\ Called("delete_note")
    /\ UNCHANGED <<notebook_pkl, process>>
    /\ UnchangedOutsideStore

\* book.save()
Save ==
    /\ notebook_pkl' = NoteBook_save(notes)
    /\ Called("save")
    /\ UNCHANGED <<notes, process>>
    /\ UnchangedOutsideStore

\* book = NoteBook.load()
Load ==
    /\ notes' = NoteBook_load(notebook_pkl, notes.last_id)
    /\ process' = [process EXCEPT !.loaded = TRUE]
    /\ Called("load")
    /\ UNCHANGED notebook_pkl
    /\ UnchangedOutsideStore

\* the process ends and another one starts: the file stays, the book in
\* memory is gone, and the class attribute Note.last_id is 1 again
StartProcess ==
    /\ process.number < MaxProcesses
    /\ process' = [number |-> process.number + 1, loaded |-> FALSE]
    /\ notes' = EmptyNotes
    /\ Called("start")
    /\ UNCHANGED notebook_pkl
    /\ UnchangedOutsideStore

NextStore ==
    \/ CreateNote
    \/ DeleteStoredNote
    \/ Save
    \/ Load
    \/ StartProcess

SpecStore == InitStore /\ [][NextStore]_vars

\* C29: after NoteBook.save followed by NoteBook.load, in the same process
\* or in a fresh process whose counter starts again at 1, every note created
\* after the load receives an id that is not a key of the loaded book, so
\* adding it never overwrites a stored note.
C29_NoIdReusedAfterLoad ==
    [][ (command'.name = "add_note" /\ process.loaded) =>
            /\ notes.last_id \notin NoteIds(notes)
            /\ Len(notes'.data) = Len(notes.data) + 1
            /\ SubSeq(notes'.data, 1, Len(notes.data)) = notes.data ]_vars

\* C29 witness: the second process loaded a saved book of two notes and
\* created a note, which the book holds behind the two stored ones.
C29_Witness ==
    /\ process = [number |-> 2, loaded |-> TRUE]
    /\ command.name = "add_note"
    /\ Len(notebook_pkl.data) = 2
    /\ Len(notes.data) = 3
    /\ SubSeq(notes.data, 1, 2) = notebook_pkl.data

=============================================================================
